---- MODULE Spec2Model ----
(***************************************************************************)
(* Librarian 2.0: the illusion detector (detector.py), the warning level   *)
(* of the orientation engine (engine.py) and the single-slot briefing      *)
(* cache (api.py), as state machines over the data the code manipulates.   *)
(*                                                                         *)
(* Python strings are TLA+ strings (Len, \o and SubSeq act on them), a     *)
(* Python dict is the sequence of its items in insertion order, and the    *)
(* Python value None is the string None below, which no modelled input     *)
(* contains.                                                               *)
(***************************************************************************)
EXTENDS Integers, Sequences, FiniteSets, TLC

VARIABLES
    clock,            \* wall clock, in seconds (datetime.now)
    db,               \* the knowledge-base store: [exists, rows]
    reality,          \* detector runs: the RealitySnapshot handed to the detector
    claims_in,        \* verifier runs: the claims handed to verify_claims
    call,             \* detector runs: the last detector call and what it returned
    briefing,         \* detector runs: the OrientationBriefing synthesized from call
    pending,          \* cache runs: the calls of _get_briefing awaiting their scan
    ret,              \* cache runs: the call that returned last and what it returned
    cached_briefing,  \* api.py _cached_briefing
    cached_at,        \* api.py _cached_at
    written,          \* cache runs: the call that wrote the slot last and its briefing
    overlapped        \* cache runs: some call arrived while another was awaiting its scan

vars == <<clock, db, reality, claims_in, call, briefing, pending, ret, cached_briefing,
          cached_at, written, overlapped>>

None == "<None>"

\* the value None of an Optional[int], Optional[float] or Optional[datetime]
NoNumber == -1

-----------------------------------------------------------------------------
(* Python string primitives *)

Min(a, b) == IF a <= b THEN a ELSE b

\* s[:n]
Prefix(s, n) == SubSeq(s, 1, Min(n, Len(s)))

\* s[n:]
Suffix(s, n) == SubSeq(s, Min(n, Len(s)) + 1, Len(s))

UpperLetters == "ABCDEFGHIJKLMNOPQRSTUVWXYZ"
LowerLetters == "abcdefghijklmnopqrstuvwxyz"

LowerTable ==
    [c \in {SubSeq(UpperLetters, i, i) : i \in 1..Len(UpperLetters)} |->
        LET i == CHOOSE j \in 1..Len(UpperLetters) : SubSeq(UpperLetters, j, j) = c
        IN  SubSeq(LowerLetters, i, i)]

LowerChar(c) == IF c \in DOMAIN LowerTable THEN LowerTable[c] ELSE c

\* str.lower()
RECURSIVE Lower(_)
Lower(s) == IF Len(s) = 0 THEN "" ELSE LowerChar(SubSeq(s, 1, 1)) \o Lower(Suffix(s, 1))

\* needle in hay
Contains(hay, needle) ==
    \E i \in 1..(Len(hay) - Len(needle) + 1) : SubSeq(hay, i, i + Len(needle) - 1) = needle

\* s.startswith(p)
StartsWith(s, p) == Len(p) <= Len(s) /\ SubSeq(s, 1, Len(p)) = p

\* s.replace("\\", "/")
RECURSIVE ReplaceBackslash(_)
ReplaceBackslash(s) ==
    IF Len(s) = 0 THEN ""
    ELSE (IF SubSeq(s, 1, 1) = "\\" THEN "/" ELSE SubSeq(s, 1, 1)) \o ReplaceBackslash(Suffix(s, 1))

\* s.split(":", 1): one part when s holds no colon, else the text before the
\* first colon and the text after it
SplitColon(s) ==
    IF \E i \in 1..Len(s) : SubSeq(s, i, i) = ":"
    THEN LET i == CHOOSE j \in 1..Len(s) :
                     /\ SubSeq(s, j, j) = ":"
                     /\ \A k \in 1..(j - 1) : SubSeq(s, k, k) # ":"
         IN  <<SubSeq(s, 1, i - 1), SubSeq(s, i + 1, Len(s))>>
    ELSE <<s>>

Digits == "0123456789"

\* str(n) of a natural number
RECURSIVE IntStr(_)
IntStr(n) ==
    IF n < 10 THEN SubSeq(Digits, n + 1, n + 1)
    ELSE IntStr(n \div 10) \o SubSeq(Digits, (n % 10) + 1, (n % 10) + 1)

\* the rendering of a float rounded to one decimal, held as a number of tenths
TenthsStr(t) == IntStr(t \div 10) \o "." \o IntStr(t % 10)

\* two decimal digits, as in the %02d fields of datetime.isoformat()
TwoDigits(n) == IF n < 10 THEN "0" \o IntStr(n) ELSE IntStr(n)

\* the day on which the runs take place; times are seconds since its midnight, UTC
Day == "2026-01-01"

\* datetime.isoformat() of an aware UTC datetime with no microseconds
IsoFormat(t) ==
    Day \o "T" \o TwoDigits((t \div 3600) % 24) \o ":" \o TwoDigits((t \div 60) % 60)
        \o ":" \o TwoDigits(t % 60) \o "+00:00"

\* the f-string rendering of an optional string
FStr(x) == IF x = None THEN "None" ELSE x

\* Python truthiness of an optional string
Truthy(x) == x # None /\ x # ""

\* str(d) of a dict of strings, d given as its items <<key, value>> in order
RECURSIVE DictItemsStr(_)
DictItemsStr(items) ==
    IF Len(items) = 0 THEN ""
    ELSE "'" \o items[1][1] \o "': '" \o items[1][2] \o "'"
         \o (IF Len(items) > 1 THEN ", " ELSE "") \o DictItemsStr(Tail(items))

DictStr(items) == "{" \o DictItemsStr(items) \o "}"

-----------------------------------------------------------------------------
(* detector.py: verdicts, severities, claims *)

VERIFIED     == "VERIFIED"
ILLUSION     == "ILLUSION"
UNVERIFIABLE == "UNVERIFIABLE"
STALE        == "STALE"

SEVERITY_HIGH   == "HIGH"
SEVERITY_MEDIUM == "MEDIUM"
SEVERITY_LOW    == "LOW"

\* Claim(...) as extract_claims constructs it: verdict UNVERIFIABLE, the other
\* fields at their dataclass defaults unless a severity is given
Claim(entry_id, priority, claim_type, claim_text, expected_value, severity) ==
    [entry_id       |-> entry_id,
     entry_priority |-> priority,
     claim_type     |-> claim_type,
     claim_text     |-> claim_text,
     expected_value |-> expected_value,
     verdict        |-> UNVERIFIABLE,
     actual_value   |-> None,
     severity       |-> severity,
     note           |-> None]

-----------------------------------------------------------------------------
(* detector.py: claim extraction.  The content of an entry is the sequence *)
(* of the places where one of the extractor's patterns matches, in text    *)
(* order: pat names the pattern, g0 is the whole match (m.group(0)) and g1 *)
(* its first group (m.group(1)).  MARKER is a match of the bug-inventory   *)
(* search of extract_claims.                                               *)

RE_COMMIT_CONTEXT == "RE_COMMIT_CONTEXT"
RE_SERVICE_UP     == "RE_SERVICE_UP"
RE_SERVICE_DOWN   == "RE_SERVICE_DOWN"
RE_BUG_ACTIVE     == "RE_BUG_ACTIVE"
RE_FILE_CLAIM     == "RE_FILE_CLAIM"
MARKER            == "MARKER"

Site(pat, g0, g1) == [pat |-> pat, g0 |-> g0, g1 |-> g1]

\* pattern.finditer(content)
FindIter(pat, content) == SelectSeq(content, LAMBDA m : m.pat = pat)

ServiceNameNormalize(raw) ==
    LET r == Lower(raw)
    IN  IF Contains(r, "lxr-5") \/ Contains(r, "lxr5") THEN "lxr-5"
        ELSE IF Contains(r, "coach") THEN "coach"
        ELSE IF Contains(r, "cloudeye-lxr") THEN "lxr"
        ELSE IF Contains(r, "cloudeye-ui") \/ Contains(r, "ui") THEN "ui"
        ELSE None

ExtractClaims(entry_id, priority, content) ==
    LET commits == FindIter(RE_COMMIT_CONTEXT, content)
        gitClaims ==
            [i \in 1..Len(commits) |->
                Claim(entry_id, priority, "git_commit", commits[i].g0,
                      Lower(commits[i].g1), SEVERITY_LOW)]
        ups == SelectSeq(FindIter(RE_SERVICE_UP, content),
                         LAMBDA m : ServiceNameNormalize(m.g1) # None)
        svcClaims ==
            [i \in 1..Len(ups) |->
                Claim(entry_id, priority, "service_health", ups[i].g0,
                      ServiceNameNormalize(ups[i].g1) \o ":UP", SEVERITY_LOW)]
        bugs == IF \E i \in 1..Len(content) : content[i].pat = MARKER
                THEN FindIter(RE_BUG_ACTIVE, content)
                ELSE <<>>
        bugClaims ==
            [i \in 1..Len(bugs) |->
                Claim(entry_id, priority, "bug_active", Prefix(bugs[i].g0, 120),
                      "bug:present", SEVERITY_HIGH)]
        files == SelectSeq(FindIter(RE_FILE_CLAIM, content), LAMBDA m : Len(m.g1) > 4)
        fileClaims ==
            [i \in 1..Len(files) |->
                Claim(entry_id, priority, "file_exists", Prefix(files[i].g0, 120),
                      files[i].g1, SEVERITY_LOW)]
    IN  gitClaims \o svcClaims \o bugClaims \o fileClaims

-----------------------------------------------------------------------------
(* detector.py: verification against the snapshot *)

\* a loop without the break ends at the last matching position
LastOf(hits) == CHOOSE j \in hits : \A k \in hits : j >= k

\* the position at which a loop that breaks on its first match stops
FirstOf(hits) == CHOOSE j \in hits : \A k \in hits : j <= k

\* the same comparison without the two lower() calls
GitMatchesExact(claim, git) ==
    {i \in 1..Len(git) :
        /\ Truthy(git[i].head_commit)
        /\ StartsWith(git[i].head_commit, claim.expected_value)}

\* the positions of the repositories whose head matches the expected token
GitMatches(claim, git) ==
    {i \in 1..Len(git) :
        /\ Truthy(git[i].head_commit)
        /\ StartsWith(Lower(git[i].head_commit), Lower(claim.expected_value))}

VerifyGitCommit(claim, snapshot) ==
    LET git == snapshot.git
        hits == GitMatches(claim, git)
    IN  IF hits # {}
        THEN LET i == FirstOf(hits)
             IN  [claim EXCEPT !.verdict = VERIFIED,
                               !.actual_value = git[i].head_commit,
                               !.note = "Matches " \o git[i].repo_name \o " HEAD"]
        ELSE LET withHead == SelectSeq(git, LAMBDA g : Truthy(g.head_commit))
                 actual_commits ==
                     [i \in 1..Len(withHead) |->
                         <<withHead[i].repo_name, withHead[i].head_commit>>]
             IN  [claim EXCEPT !.verdict = ILLUSION,
                               !.actual_value = DictStr(actual_commits),
                               !.severity = SEVERITY_MEDIUM,
                               !.note = "Commit not found as HEAD in any known repo"]

\* a lookup that finds no service
ServiceGetNothing(services, sname) == {}

\* reality.services.get(sname): the positions holding that name (one or none)
ServiceGet(services, sname) == {i \in 1..Len(services) : services[i].name = sname}

VerifyServiceHealth(claim, snapshot) ==
    LET parts == SplitColon(claim.expected_value)
        sname == parts[1]
        expected_status == parts[2]
        found == ServiceGet(snapshot.services, sname)
    IN  IF found = {}
        THEN [claim EXCEPT !.verdict = UNVERIFIABLE,
                           !.note = "Service '" \o sname \o "' not in scan scope"]
        ELSE LET svc == snapshot.services[CHOOSE i \in found : TRUE]
             IN  IF svc.reachable /\ expected_status = "UP"
                 THEN [claim EXCEPT !.verdict = VERIFIED,
                                    !.actual_value = "HTTP " \o IntStr(svc.status_code)
                                        \o " (" \o TenthsStr(svc.response_ms) \o "ms)"]
                 ELSE IF ~svc.reachable /\ expected_status = "DOWN"
                 THEN [claim EXCEPT !.verdict = VERIFIED,
                                    !.actual_value = "Unreachable: " \o FStr(svc.error)]
                 ELSE IF ~svc.reachable /\ expected_status = "UP"
                 THEN [claim EXCEPT !.verdict = ILLUSION,
                                    !.actual_value = "Service DOWN: " \o FStr(svc.error),
                                    !.severity = SEVERITY_HIGH,
                                    !.note = "Service claimed UP but is unreachable"]
                 ELSE [claim EXCEPT !.verdict = UNVERIFIABLE]

\* verifiers that give a defect claim another verdict
VerifyBugActiveIllusion(claim) == [claim EXCEPT !.verdict = ILLUSION]
VerifyBugActiveStale(claim) == [claim EXCEPT !.verdict = STALE]

VerifyBugActive(claim) ==
    [claim EXCEPT !.verdict = UNVERIFIABLE,
                  !.note = "Bug status requires code inspection or live test to verify"]

\* the condition of the file_exists loop for one filesystem key, given
\* fname.replace("\\", "/").lower() and key.lower()
FileKeyMatches(fname_lower, key_lower) ==
    \/ Contains(key_lower, fname_lower)
    \/ Contains(fname_lower, key_lower)

VerifyFileExists(claim, snapshot) ==
    LET fs == snapshot.filesystem
        fname_lower == Lower(ReplaceBackslash(claim.expected_value))
        hits == {i \in 1..Len(fs) : FileKeyMatches(fname_lower, Lower(fs[i].key))}
    IN  IF hits # {}
        THEN LET i == FirstOf(hits)
             IN  IF fs[i].exists
                 THEN [claim EXCEPT !.verdict = VERIFIED,
                                    !.actual_value = "Found: " \o fs[i].key]
                 ELSE [claim EXCEPT !.verdict = ILLUSION,
                                    !.actual_value = "NOT found: " \o fs[i].key,
                                    !.severity = SEVERITY_MEDIUM,
                                    !.note = "File claimed to exist but not found on filesystem"]
        ELSE [claim EXCEPT !.verdict = UNVERIFIABLE,
                           !.note = "File not in known scan paths"]

\* the body of the loop of verify_claims for one claim
VerifyOne(claim, snapshot) ==
    IF claim.claim_type = "git_commit" THEN VerifyGitCommit(claim, snapshot)
    ELSE IF claim.claim_type = "service_health" THEN VerifyServiceHealth(claim, snapshot)
    ELSE IF claim.claim_type = "bug_active" THEN VerifyBugActive(claim)
    ELSE IF claim.claim_type = "file_exists" THEN VerifyFileExists(claim, snapshot)
    ELSE claim

\* a verifier that passes over the claims whose type it does not know
VerifyClaimsKnownTypes(claims, snapshot) ==
    LET known == SelectSeq(claims, LAMBDA c :
                    c.claim_type \in {"git_commit", "service_health", "bug_active", "file_exists"})
    IN  [i \in 1..Len(known) |-> VerifyOne(known[i], snapshot)]

VerifyClaims(claims, snapshot) ==
    [i \in 1..Len(claims) |-> VerifyOne(claims[i], snapshot)]


-----------------------------------------------------------------------------
(* config.py *)

ILLUSION_RECENT_HOURS == 72
SCAN_CURRENT_FOCUS_LIMIT == 20
REPOS == <<"coach", "lxr-5", "lxr", "ui", "omni", "bridge">>
SERVICES == <<"lxr-5", "coach", "coach-fe", "ui", "lxr">>

(* scanner.py: the keys of KEY_FILES, in order *)
KEY_FILES ==
    <<"coach/APPENDIX_PERSISTENCE_NERVOUS_SYSTEM.md",
      "coach/APPENDIX_PHASE_TRACKER.md",
      "omni/path_tau/README.md",
      "omni/path_tau/orchestrator/__init__.py",
      "bridge/tau_integration.py",
      "bridge/cloud_eye_mcp_bridge.py",
      "librarian_db",
      "sapphire_db">>

-----------------------------------------------------------------------------
(* detector.py: loading the entries, deduplication, ordering *)

\* the CASE expression of the ORDER BY clause
PriorityRank(priority) ==
    IF priority = "current focus" \/ priority = "current_focus" THEN 0 ELSE 1

RowBefore(a, b) ==
    \/ PriorityRank(a.priority) < PriorityRank(b.priority)
    \/ /\ PriorityRank(a.priority) = PriorityRank(b.priority)
       /\ a.created_at > b.created_at

RECURSIVE InsertRow(_, _)
InsertRow(sorted, r) ==
    IF Len(sorted) = 0 THEN <<r>>
    ELSE IF RowBefore(r, Head(sorted)) THEN <<r>> \o sorted
    ELSE <<Head(sorted)>> \o InsertRow(Tail(sorted), r)

RECURSIVE OrderRows(_)
OrderRows(rows) ==
    IF Len(rows) = 0 THEN <<>>
    ELSE InsertRow(OrderRows(SubSeq(rows, 1, Len(rows) - 1)), rows[Len(rows)])

\* the rows the query returns; created_at and now are in seconds
LoadCurrentFocusEntries(store, now) ==
    IF ~store.exists \/ store.broken THEN <<>>
    ELSE LET cutoff == now - ILLUSION_RECENT_HOURS * 3600
             rows == SelectSeq(store.rows, LAMBDA r :
                        /\ r.priority \in {"current focus", "current_focus", "essence"}
                        /\ \/ r.created_at > cutoff
                           \/ Contains(Lower(r.priority), "current"))
             ordered == OrderRows(rows)
         IN  SubSeq(ordered, 1, Min(Len(ordered), SCAN_CURRENT_FOCUS_LIMIT + 10))

RECURSIVE ExtractAll(_)
ExtractAll(entries) ==
    IF Len(entries) = 0 THEN <<>>
    ELSE ExtractClaims(IntStr(entries[1].id), entries[1].priority, entries[1].content)
         \o ExtractAll(Tail(entries))

\* a key on the whole expected value
DedupKeyWhole(c) == <<c.claim_type, c.expected_value>>

\* a key on the matched text
DedupKeyByText(c) == <<c.claim_type, c.claim_text>>

DedupKey(c) == <<c.claim_type, Prefix(c.expected_value, 40)>>

RECURSIVE Deduplicate(_, _)
Deduplicate(claims, seen) ==
    IF Len(claims) = 0 THEN <<>>
    ELSE IF DedupKey(claims[1]) \in seen THEN Deduplicate(Tail(claims), seen)
    ELSE <<claims[1]>> \o Deduplicate(Tail(claims), seen \cup {DedupKey(claims[1])})

VerdictOrder(v) ==
    CASE v = ILLUSION -> 0
      [] v = UNVERIFIABLE -> 1
      [] v = VERIFIED -> 2
      [] v = STALE -> 3
      [] OTHER -> 9

SevOrder(s) ==
    CASE s = SEVERITY_HIGH -> 0
      [] s = SEVERITY_MEDIUM -> 1
      [] s = SEVERITY_LOW -> 2
      [] OTHER -> 9

\* a sort key of the verdict alone
KeyLessVerdictOnly(a, b) == VerdictOrder(a.verdict) < VerdictOrder(b.verdict)

\* the sort key of a is smaller than the sort key of b
KeyLess(a, b) ==
    \/ VerdictOrder(a.verdict) < VerdictOrder(b.verdict)
    \/ /\ VerdictOrder(a.verdict) = VerdictOrder(b.verdict)
       /\ SevOrder(a.severity) < SevOrder(b.severity)

RECURSIVE InsertClaim(_, _)
InsertClaim(sorted, c) ==
    IF Len(sorted) = 0 THEN <<c>>
    ELSE IF KeyLess(c, Head(sorted)) THEN <<c>> \o sorted
    ELSE <<Head(sorted)>> \o InsertClaim(Tail(sorted), c)

\* sorted(claims, key=...): stable, ascending
RECURSIVE SortedClaims(_)
SortedClaims(claims) ==
    IF Len(claims) = 0 THEN <<>>
    ELSE InsertClaim(SortedClaims(SubSeq(claims, 1, Len(claims) - 1)), claims[Len(claims)])

\* detect_illusions, with the lists it builds on the way; out is what it returns
DetectIllusions(store, now, snapshot) ==
    LET entries == LoadCurrentFocusEntries(store, now)
        all_claims == ExtractAll(entries)
        unique_claims == Deduplicate(all_claims, {})
        verified == VerifyClaims(unique_claims, snapshot)
    IN  [op            |-> "detect_illusions",
         entries       |-> entries,
         all_claims    |-> all_claims,
         unique_claims |-> unique_claims,
         verified      |-> verified,
         out           |-> SortedClaims(verified)]

-----------------------------------------------------------------------------
(* engine.py *)

\* a level that ignores the illusions of medium severity
WarningLevelRedOrGreen(illusions, down_svcs) ==
    IF \/ Len(down_svcs) > 0
       \/ \E i \in 1..Len(illusions) :
             illusions[i].verdict = ILLUSION /\ illusions[i].severity = SEVERITY_HIGH
    THEN "RED"
    ELSE "GREEN"

\* a level that is RED for one unreachable service and not for more
WarningLevelOneOutage(illusions, down_svcs) ==
    IF \/ Len(down_svcs) = 1
       \/ \E i \in 1..Len(illusions) :
             illusions[i].verdict = ILLUSION /\ illusions[i].severity = SEVERITY_HIGH
    THEN "RED"
    ELSE IF \E i \in 1..Len(illusions) :
               illusions[i].verdict = ILLUSION /\ illusions[i].severity = SEVERITY_MEDIUM
    THEN "AMBER"
    ELSE "GREEN"

WarningLevel(illusions, down_svcs) ==
    IF \/ Len(down_svcs) > 0
       \/ \E i \in 1..Len(illusions) :
             illusions[i].verdict = ILLUSION /\ illusions[i].severity = SEVERITY_HIGH
    THEN "RED"
    ELSE IF \E i \in 1..Len(illusions) :
               illusions[i].verdict = ILLUSION /\ illusions[i].severity = SEVERITY_MEDIUM
    THEN "AMBER"
    ELSE "GREEN"

DownServices(snapshot) ==
    LET down == SelectSeq(snapshot.services, LAMBDA s : ~s.reachable)
    IN  [i \in 1..Len(down) |-> down[i].name]

Synthesize(snapshot, illusion_claims) ==
    LET illusions == SelectSeq(illusion_claims, LAMBDA c : c.verdict = ILLUSION)
        unverif   == SelectSeq(illusion_claims, LAMBDA c : c.verdict = UNVERIFIABLE)
        verified  == SelectSeq(illusion_claims, LAMBDA c : c.verdict = VERIFIED)
        down_svcs == DownServices(snapshot)
    IN  [generated_at       |-> snapshot.scanned_at,
         scan_duration_ms   |-> snapshot.scan_duration_ms,
         filesystem_summary |-> snapshot.filesystem,
         illusions          |-> illusions,
         unverifiable       |-> unverif,
         verified_claims    |-> verified,
         illusion_count     |-> Len(illusions),
         warning_level      |-> WarningLevel(illusions, down_svcs)]


-----------------------------------------------------------------------------
(* scanner.py: the states a snapshot is made of *)

GitState(repo_name, head_commit) ==
    [repo_name    |-> repo_name,
     available    |-> head_commit # None,
     head_commit  |-> head_commit,
     branch       |-> IF head_commit # None THEN "master" ELSE None,
     untracked    |-> <<>>,
     modified     |-> <<>>,
     staged       |-> <<>>,
     ahead_behind |-> None,
     error        |-> IF head_commit # None THEN None ELSE "Path not found: " \o repo_name]

ServiceState(name, reachable) ==
    [name        |-> name,
     reachable   |-> reachable,
     status_code |-> IF reachable THEN 200 ELSE NoNumber,
     response_ms |-> IF reachable THEN 123 ELSE NoNumber,
     version     |-> None,
     error       |-> IF reachable THEN None ELSE "ConnectTimeout"]

RealitySnapshot(scanned_at, scan_duration_ms, git, services, filesystem) ==
    [scanned_at       |-> scanned_at,
     scan_duration_ms |-> scan_duration_ms,
     git              |-> git,
     services         |-> services,
     filesystem       |-> filesystem]

\* one GitState per repository of REPOS, in registry order, from its head
GitStates(heads) == [i \in 1..Len(REPOS) |-> GitState(REPOS[i], heads[i])]

\* one ServiceState per service of SERVICES, in registry order
ServiceStates(down) == [i \in 1..Len(SERVICES) |-> ServiceState(SERVICES[i], SERVICES[i] \notin down)]

\* scan_filesystem: one existence flag per key of KEY_FILES, in order
ScanFilesystem(missing) ==
    [i \in 1..Len(KEY_FILES) |-> [key |-> KEY_FILES[i], exists |-> KEY_FILES[i] \notin missing]]

-----------------------------------------------------------------------------
(* The inputs of the detector and verifier runs *)

MaxRows == 2
MaxClaims == 2

GitOptions ==
    {GitStates(<<None, None, None, None, None, None>>),
     GitStates(<<"1a2b3c4d5e", None, None, None, None, None>>),
     GitStates(<<"9999999", "1A2B3C4FFF", None, None, "1a2b3c4d5e", None>>)}

ServiceOptions ==
    {ServiceStates({}), ServiceStates({"ui"}), ServiceStates({"coach", "ui", "lxr-5"})}

FilesystemOptions ==
    {ScanFilesystem({"coach/APPENDIX_PERSISTENCE_NERVOUS_SYSTEM.md", "omni/path_tau/README.md"}),
     <<[key |-> "coach/notes.md", exists |-> FALSE], [key |-> "omni/Notes.md", exists |-> TRUE]>>,
     <<[key |-> "omni/Notes.md", exists |-> TRUE], [key |-> "coach/notes.md", exists |-> FALSE]>>}

Snapshots ==
    {RealitySnapshot(IsoFormat(0), 0, g, s, f) : g \in GitOptions, s \in ServiceOptions, f \in FilesystemOptions}

LongPathA == "docs/archive/persistence/nervous/system/appendix_a.md"
LongPathB == "docs/archive/persistence/nervous/system/appendix_b.md"

Row(id, priority, created_at, content) ==
    [id |-> id, priority |-> priority, category |-> "guidance",
     content |-> content, created_at |-> created_at]

\* the time of the detector runs, and creation times inside and outside the
\* recency window of ILLUSION_RECENT_HOURS
DetectorNow == 300000

RowPool ==
    <<Row(1, "current focus", 290001,
          <<Site(RE_COMMIT_CONTEXT, "master at 1a2b3c4", "1a2b3c4"),
            Site(RE_SERVICE_UP, "coach: UP", "coach"),
            Site(RE_FILE_CLAIM, "committed notes.md", "notes.md")>>),
      Row(2, "essence", 290002,
          <<Site(RE_FILE_CLAIM, "saved " \o LongPathA, LongPathA),
            Site(RE_SERVICE_UP, "cloudeye-ui status: running", "cloudeye-ui"),
            Site(RE_COMMIT_CONTEXT, "commit 1A2B3C4", "1A2B3C4"),
            Site(RE_FILE_CLAIM, "exists a.md", "a.md"),
            Site(MARKER, "KNOWN RUNTIME", ""),
            Site(RE_BUG_ACTIVE, "no such table: detected_patterns", "")>>),
      Row(3, "current_focus", 10003,
          <<Site(MARKER, "BUG INVENTORY", ""),
            Site(RE_BUG_ACTIVE, "BUG 1: no such table: routing_observations", ""),
            Site(RE_FILE_CLAIM, "created " \o LongPathB, LongPathB),
            Site(RE_BUG_ACTIVE, "BUG 2: sqlite3.Row has no attribute get", ""),
            Site(RE_SERVICE_UP, "Coach health: LIVE", "Coach")>>),
      Row(4, "essence", 10004,
          <<Site(RE_COMMIT_CONTEXT, "at 7777777", "7777777")>>),
      Row(5, "essence", 290005,
          <<Site(RE_BUG_ACTIVE, "no such column: adjustment_applied", ""),
            Site(RE_SERVICE_DOWN, "lxr-5: DOWN", "lxr-5"),
            Site(RE_COMMIT_CONTEXT, "HEAD fffffff", "fffffff"),
            Site(RE_FILE_CLAIM, "deployed README.md", "README.md")>>)>>

\* the sequences of at most n distinct elements of 1..m
InjectiveSeqs(m, n) ==
    {s \in UNION {[1..k -> 1..m] : k \in 0..n} :
        \A i, j \in 1..Len(s) : i # j => s[i] # s[j]}

Stores ==
    {[exists |-> TRUE, broken |-> FALSE, rows |-> [i \in 1..Len(s) |-> RowPool[s[i]]]] :
        s \in InjectiveSeqs(Len(RowPool), MaxRows)}
    \cup {[exists |-> FALSE, broken |-> FALSE, rows |-> <<>>],
          [exists |-> TRUE, broken |-> TRUE, rows |-> <<RowPool[1]>>],
          \* a store with one recent entry more than SCAN_CURRENT_FOCUS_LIMIT
          [exists |-> TRUE, broken |-> FALSE,
           rows |-> [i \in 1..(SCAN_CURRENT_FOCUS_LIMIT + 1) |->
                        Row(100 + i, IF i % 3 = 0 THEN "current focus" ELSE "essence",
                            290000 + i, <<>>)]]}

NoStore == [exists |-> FALSE, broken |-> FALSE, rows |-> <<>>]

ClaimPool ==
    <<Claim("1", "essence", "git_commit", "at 1a2b3c4", "1a2b3c4", SEVERITY_LOW),
      Claim("1", "essence", "git_commit", "commit 1A2B3C4", "1A2B3C4", SEVERITY_LOW),
      Claim("2", "essence", "git_commit", "HEAD fffffff", "fffffff", SEVERITY_LOW),
      Claim("2", "essence", "service_health", "coach: UP", "coach:UP", SEVERITY_LOW),
      Claim("3", "essence", "service_health", "coach: DOWN", "coach:DOWN", SEVERITY_LOW),
      Claim("3", "essence", "service_health", "cloudeye-ui: UP", "ui:UP", SEVERITY_LOW),
      Claim("3", "essence", "service_health", "bridge: UP", "bridge:UP", SEVERITY_LOW),
      Claim("4", "essence", "service_health", "coach: up", "coach:up", SEVERITY_LOW),
      Claim("4", "essence", "bug_active", "BUG 1: no such table", "bug:present", SEVERITY_HIGH),
      Claim("5", "essence", "file_exists", "committed notes.md", "notes.md", SEVERITY_LOW),
      Claim("5", "essence", "file_exists", "saved COACH\\Notes.md", "COACH\\Notes.md", SEVERITY_LOW),
      Claim("6", "essence", "file_exists", "created zzz.py", "zzz.py", SEVERITY_LOW),
      Claim("6", "essence", "file_exists", "deployed README.md", "README.md", SEVERITY_LOW),
      Claim("7", "essence", "feature_enabled", "flag on", "flag:on", SEVERITY_LOW)>>

ClaimLists ==
    {[i \in 1..Len(s) |-> ClaimPool[s[i]]] :
        s \in UNION {[1..k -> 1..Len(ClaimPool)] : k \in 0..MaxClaims}}

NoCall == [op |-> "none"]

\* the value None of an Optional[OrientationBriefing]
NoBriefing == [none |-> TRUE]

-----------------------------------------------------------------------------
(* Detector runs: detect_illusions on a store and a snapshot, then synthesize *)

\* no call has returned yet; no call has written the slot yet
NoReturn == [none |-> TRUE]
NoWrite == [none |-> TRUE]

CacheIdle ==
    /\ pending = <<>>
    /\ ret = NoReturn
    /\ cached_briefing = NoBriefing
    /\ cached_at = NoNumber
    /\ written = NoWrite
    /\ overlapped = FALSE

CacheUnchanged ==
    UNCHANGED <<pending, ret, cached_briefing, cached_at, written, overlapped>>

InitDetector ==
    /\ clock = DetectorNow
    /\ db \in Stores
    /\ reality \in Snapshots
    /\ claims_in = <<>>
    /\ call = NoCall
    /\ briefing = NoBriefing
    /\ CacheIdle

DetectCall ==
    /\ call = NoCall
    /\ call' = DetectIllusions(db, clock, reality)
    /\ UNCHANGED <<clock, db, reality, claims_in, briefing>>
    /\ CacheUnchanged

SynthesizeCall ==
    /\ call # NoCall
    /\ briefing = NoBriefing
    /\ briefing' = Synthesize(reality, call.out)
    /\ UNCHANGED <<clock, db, reality, claims_in, call>>
    /\ CacheUnchanged

NextDetector == DetectCall \/ SynthesizeCall

SpecDetector == InitDetector /\ [][NextDetector]_vars

(* Verifier runs: verify_claims on a list of claims and a snapshot *)

InitVerifier ==
    /\ clock = DetectorNow
    /\ db = NoStore
    /\ reality \in Snapshots
    /\ claims_in \in ClaimLists
    /\ call = NoCall
    /\ briefing = NoBriefing
    /\ CacheIdle

VerifyCall ==
    /\ call = NoCall
    /\ call' = [op |-> "verify_claims", out |-> VerifyClaims(claims_in, reality)]
    /\ UNCHANGED <<clock, db, reality, claims_in, briefing>>
    /\ CacheUnchanged

NextVerifier == VerifyCall \/ SynthesizeCall

SpecVerifier == InitVerifier /\ [][NextVerifier]_vars


-----------------------------------------------------------------------------
(* Properties of the verifier and of the warning level *)

Verified == call # NoCall /\ call.op = "verify_claims"
Detected == call # NoCall /\ call.op = "detect_illusions"
Synthesized == call # NoCall /\ briefing # NoBriefing

SomeServiceDown == \E i \in 1..Len(reality.services) : ~reality.services[i].reachable

HasIllusion(claims, severity) ==
    \E i \in 1..Len(claims) : claims[i].verdict = ILLUSION /\ claims[i].severity = severity

\* C4: the warning level of a briefing is RED exactly when a service is
\* unreachable or a claim is an ILLUSION of severity HIGH, AMBER exactly when it
\* is not RED and a claim is an ILLUSION of severity MEDIUM, and GREEN otherwise;
\* with no claims and every service reachable it is GREEN.
C4_WarningLevel ==
    Synthesized =>
        LET red   == SomeServiceDown \/ HasIllusion(call.out, SEVERITY_HIGH)
            amber == ~red /\ HasIllusion(call.out, SEVERITY_MEDIUM)
        IN  /\ briefing.warning_level \in {"RED", "AMBER", "GREEN"}
            /\ (briefing.warning_level = "RED") <=> red
            /\ (briefing.warning_level = "AMBER") <=> amber
            /\ (briefing.warning_level = "GREEN") <=> (~red /\ ~amber)
            /\ (Len(call.out) = 0 /\ ~SomeServiceDown) => briefing.warning_level = "GREEN"

\* a briefing that is AMBER: every service reachable, a MEDIUM illusion
C4_Witness ==
    /\ Synthesized
    /\ briefing.warning_level = "AMBER"
    /\ ~SomeServiceDown
    /\ HasIllusion(call.out, SEVERITY_MEDIUM)

\* the state word of a service_health claim and whether its service is known
\* and reachable, read off the claim and the snapshot
ServiceOf(claim) ==
    LET e == claim.expected_value
        k == CHOOSE j \in 1..Len(e) :
                 SubSeq(e, j, j) = ":" /\ \A m \in 1..(j - 1) : SubSeq(e, m, m) # ":"
    IN  [name |-> SubSeq(e, 1, k - 1), state |-> SubSeq(e, k + 1, Len(e))]

ServiceKnown(name) == \E i \in 1..Len(reality.services) : reality.services[i].name = name

ServiceReachable(name) ==
    \E i \in 1..Len(reality.services) :
        reality.services[i].name = name /\ reality.services[i].reachable

\* C7: a service_health claim "<service>:<state>" is UNVERIFIABLE when the
\* service is no key of the snapshot, VERIFIED when UP is claimed of a reachable
\* service or DOWN of an unreachable one, ILLUSION of severity HIGH when UP is
\* claimed of an unreachable service, and UNVERIFIABLE in every other case.
C7_ServiceHealth ==
    Verified =>
        \A i \in 1..Len(claims_in) :
            claims_in[i].claim_type = "service_health" =>
                LET s == ServiceOf(claims_in[i])
                    r == call.out[i]
                IN  IF ~ServiceKnown(s.name) THEN r.verdict = UNVERIFIABLE
                    ELSE IF s.state = "UP" /\ ServiceReachable(s.name) THEN r.verdict = VERIFIED
                    ELSE IF s.state = "DOWN" /\ ~ServiceReachable(s.name) THEN r.verdict = VERIFIED
                    ELSE IF s.state = "UP" /\ ~ServiceReachable(s.name)
                         THEN r.verdict = ILLUSION /\ r.severity = SEVERITY_HIGH
                    ELSE r.verdict = UNVERIFIABLE

\* one call that verifies a DOWN claim about a reachable service and an UP
\* claim about an unreachable one
C7_Witness ==
    /\ Verified
    /\ \E i, j \in 1..Len(claims_in) :
          /\ claims_in[i].expected_value = "coach:DOWN"
          /\ claims_in[j].expected_value = "ui:UP"
          /\ ServiceReachable("coach")
          /\ ServiceKnown("ui") /\ ~ServiceReachable("ui")
          /\ call.out[i].verdict = UNVERIFIABLE
          /\ call.out[j].verdict = ILLUSION

\* head, compared without regard to case, starts with token
HeadStartsWith(head, token) ==
    /\ Len(token) <= Len(head)
    /\ \A k \in 1..Len(token) :
          LowerChar(SubSeq(head, k, k)) = LowerChar(SubSeq(token, k, k))

\* the repositories of the snapshot that have a head matching the token
ReposMatching(token) ==
    {i \in 1..Len(reality.git) :
        /\ reality.git[i].head_commit # None
        /\ HeadStartsWith(reality.git[i].head_commit, token)}

\* the rendering of the map from each repository that has a head to that head
HeadsRendering ==
    LET withHead == SelectSeq(reality.git, LAMBDA g : g.head_commit # None)
    IN  DictStr([i \in 1..Len(withHead) |->
                    <<withHead[i].repo_name, withHead[i].head_commit>>])

\* C8: a git_commit claim is VERIFIED exactly when some repository's head
\* starts, case-insensitively, with the expected token; then actual_value is the
\* head of the first such repository in registry order and the note names it;
\* otherwise the claim is an ILLUSION of severity MEDIUM whose actual_value is
\* the rendering of the map from each repository that has a head to that head.
C8_GitCommit ==
    Verified =>
        \A i \in 1..Len(claims_in) :
            claims_in[i].claim_type = "git_commit" =>
                LET m == ReposMatching(claims_in[i].expected_value)
                    r == call.out[i]
                IN  /\ (r.verdict = VERIFIED) <=> (m # {})
                    /\ m # {} =>
                          LET f == CHOOSE j \in m : \A k \in m : j <= k
                          IN  /\ r.actual_value = reality.git[f].head_commit
                              /\ r.note = "Matches " \o REPOS[f] \o " HEAD"
                    /\ m = {} =>
                          /\ r.verdict = ILLUSION
                          /\ r.severity = SEVERITY_MEDIUM
                          /\ r.actual_value = HeadsRendering

\* a token in upper case verified against the first of two matching heads
C8_Witness ==
    /\ Verified
    /\ \E i \in 1..Len(claims_in) :
          /\ claims_in[i].claim_type = "git_commit"
          /\ claims_in[i].expected_value = "1A2B3C4"
          /\ Cardinality(ReposMatching("1A2B3C4")) = 2
          /\ call.out[i].verdict = VERIFIED
          /\ call.out[i].actual_value = "1A2B3C4FFF"

\* a contains b, character by character
Within(a, b) ==
    \E k \in 0..(Len(a) - Len(b)) :
        \A m \in 1..Len(b) : SubSeq(a, k + m, k + m) = SubSeq(b, m, m)

\* the claimed path, backslashes turned into slashes and lower-cased
ClaimedPath(fname) == Lower(ReplaceBackslash(fname))


\* the filesystem keys of the snapshot that match the claimed path
KeysMatching(fname) ==
    {i \in 1..Len(reality.filesystem) :
        LET key == Lower(reality.filesystem[i].key)
        IN  Within(key, ClaimedPath(fname)) \/ Within(ClaimedPath(fname), key)}

\* C9: a file_exists claim is decided by the first filesystem key, in the
\* snapshot's key order, that contains the claimed path or is contained in it
\* (the path with backslashes turned into slashes, both compared in lower
\* case): VERIFIED if that key's flag is true, ILLUSION of severity MEDIUM if it
\* is false, whatever later matching keys say; UNVERIFIABLE when no key matches.
C9_FileExists ==
    Verified =>
        \A i \in 1..Len(claims_in) :
            claims_in[i].claim_type = "file_exists" =>
                LET m == KeysMatching(claims_in[i].expected_value)
                    r == call.out[i]
                IN  IF m = {} THEN r.verdict = UNVERIFIABLE
                    ELSE LET f == CHOOSE j \in m : \A k \in m : j <= k
                         IN  IF reality.filesystem[f].exists
                             THEN r.verdict = VERIFIED
                             ELSE r.verdict = ILLUSION /\ r.severity = SEVERITY_MEDIUM

\* a path written with a backslash and capitals that matches two keys whose
\* flags differ
C9_Witness ==
    /\ Verified
    /\ \E i \in 1..Len(claims_in) :
          /\ claims_in[i].claim_type = "file_exists"
          /\ claims_in[i].expected_value = "COACH\\Notes.md"
          /\ call.out[i].verdict \in {VERIFIED, ILLUSION}
    /\ \E j, k \in KeysMatching("notes.md") :
          reality.filesystem[j].exists /\ ~reality.filesystem[k].exists

\* what identifies a claim: the fields the verifier never writes
Identity(c) == <<c.entry_id, c.entry_priority, c.claim_type, c.claim_text, c.expected_value>>

\* C10: verify_claims returns the claims it was given, as many and in the same
\* order, each with one verdict among VERIFIED, ILLUSION, UNVERIFIABLE and
\* STALE, and every bug_active claim with verdict UNVERIFIABLE.
C10_EveryClaimOneVerdict ==
    Verified =>
        /\ Len(call.out) = Len(claims_in)
        /\ \A i \in 1..Len(claims_in) :
              /\ Identity(call.out[i]) = Identity(claims_in[i])
              /\ call.out[i].verdict \in {VERIFIED, ILLUSION, UNVERIFIABLE, STALE}
              /\ claims_in[i].claim_type = "bug_active" => call.out[i].verdict = UNVERIFIABLE

\* a call given a claim of a type the verifier does not know, then a bug_active
\* claim, with some service down
C10_Witness ==
    /\ Verified
    /\ Len(claims_in) = 2
    /\ claims_in[1].claim_type = "feature_enabled"
    /\ claims_in[2].claim_type = "bug_active"
    /\ call.out[2].verdict = UNVERIFIABLE
    /\ SomeServiceDown

-----------------------------------------------------------------------------
(* Properties of detect_illusions *)

VerdictRank(c) ==
    CASE c.verdict = ILLUSION -> 0
      [] c.verdict = UNVERIFIABLE -> 1
      [] c.verdict = VERIFIED -> 2
      [] c.verdict = STALE -> 3

SeverityRank(c) ==
    CASE c.severity = SEVERITY_HIGH -> 0
      [] c.severity = SEVERITY_MEDIUM -> 1
      [] c.severity = SEVERITY_LOW -> 2

InOrder(a, b) ==
    \/ VerdictRank(a) < VerdictRank(b)
    \/ VerdictRank(a) = VerdictRank(b) /\ SeverityRank(a) <= SeverityRank(b)

Occurrences(claims, c) == Cardinality({i \in 1..Len(claims) : claims[i] = c})

\* C5: the list detect_illusions returns is ordered by (verdict rank, severity
\* rank), ILLUSION=0 UNVERIFIABLE=1 VERIFIED=2 STALE=3 and HIGH=0 MEDIUM=1 LOW=2,
\* and is a permutation of the verified claims.
C5_SortedOutput ==
    Detected =>
        /\ \A i \in 1..(Len(call.out) - 1) : InOrder(call.out[i], call.out[i + 1])
        /\ Len(call.out) = Len(call.verified)
        /\ \A i \in 1..Len(call.verified) :
              Occurrences(call.out, call.verified[i])
                  = Occurrences(call.verified, call.verified[i])

\* an output the sort had to reorder, with the same verdict under two
\* severities and two verdicts
C5_Witness ==
    /\ Detected
    /\ call.out # call.verified
    /\ \E i \in 1..(Len(call.out) - 1) :
          /\ VerdictRank(call.out[i]) = VerdictRank(call.out[i + 1])
          /\ SeverityRank(call.out[i]) < SeverityRank(call.out[i + 1])
    /\ \E i \in 1..(Len(call.out) - 1) :
          VerdictRank(call.out[i]) < VerdictRank(call.out[i + 1])

\* the pair claims are deduplicated by
KeyPair(c) ==
    <<c.claim_type,
      SubSeq(c.expected_value, 1, IF Len(c.expected_value) < 40 THEN Len(c.expected_value) ELSE 40)>>

\* the position in load order of the entry a claim was extracted from
EntryPosition(c) ==
    CHOOSE k \in 1..Len(call.entries) : IntStr(call.entries[k].id) = c.entry_id

TypeRank(c) ==
    CASE c.claim_type = "git_commit" -> 0
      [] c.claim_type = "service_health" -> 1
      [] c.claim_type = "bug_active" -> 2
      [] c.claim_type = "file_exists" -> 3

\* position i is the first, in extraction order, to hold its pair
FirstOfPair(i) ==
    \A j \in 1..(i - 1) : KeyPair(call.all_claims[j]) # KeyPair(call.all_claims[i])

\* C6: no two claims of the output of detect_illusions share the pair
\* (claim_type, first 40 characters of expected_value); the claims of the output
\* are exactly the first claims of each pair in extraction order (entries in
\* load order, and within an entry revision, service, defect, file claims).
C6_Deduplicated ==
    Detected =>
        /\ \A i, j \in 1..Len(call.out) :
              i # j => KeyPair(call.out[i]) # KeyPair(call.out[j])
        /\ \A i, j \in 1..Len(call.all_claims) :
              i < j =>
                  \/ EntryPosition(call.all_claims[i]) < EntryPosition(call.all_claims[j])
                  \/ /\ EntryPosition(call.all_claims[i]) = EntryPosition(call.all_claims[j])
                     /\ TypeRank(call.all_claims[i]) <= TypeRank(call.all_claims[j])
        /\ \A i \in 1..Len(call.all_claims) :
              FirstOfPair(i) <=>
                  \E k \in 1..Len(call.out) :
                      Identity(call.out[k]) = Identity(call.all_claims[i])
        /\ \A k \in 1..Len(call.out) :
              \E i \in 1..Len(call.all_claims) :
                  Identity(call.out[k]) = Identity(call.all_claims[i])

\* two file claims that differ only after their 40th character, of which the
\* output keeps one
C6_Witness ==
    /\ Detected
    /\ \E i, j \in 1..Len(call.all_claims) :
          /\ i < j
          /\ call.all_claims[i].expected_value # call.all_claims[j].expected_value
          /\ Len(call.all_claims[i].expected_value) > 40
          /\ KeyPair(call.all_claims[i]) = KeyPair(call.all_claims[j])
    /\ Len(call.out) < Len(call.all_claims)


-----------------------------------------------------------------------------
(* api.py: the briefing cache.  A call of _get_briefing runs without        *)
(* interruption up to the await of the service probes inside full_scan      *)
(* (Begin), and from their join to its return (Finish); calls interleave    *)
(* only between the two.  Time is in whole seconds.                         *)

CACHE_TTL_SECONDS == 60

MaxPending == 2  \* calls of _get_briefing awaiting their scan at one time
MaxClock == 61   \* no call arrives and no time passes after this time

TickSteps == {30}

\* seconds that may pass between the clock read of _get_briefing and that of
\* full_scan, which no await separates; a late second read is explored for
\* the calls that arrive on a tick
DriftSteps == {0, 1}
MayDrift(time, drift) == drift = 0 \/ \E d \in TickSteps : time % d = 0

CacheStore ==
    [exists |-> TRUE, broken |-> FALSE,
     rows |-> <<Row(1, "current focus", 0,
                    <<Site(RE_COMMIT_CONTEXT, "master at 1a2b3c4", "1a2b3c4"),
                      Site(RE_SERVICE_UP, "coach: UP", "coach")>>)>>]

CacheGit == GitStates(<<"1a2b3c4d5e", None, None, None, None, None>>)

CacheServiceOptions == {ServiceStates({"coach"})}

\* comparisons other than the one of the hit test
CacheFreshInverted(now, at) == (now - at) > CACHE_TTL_SECONDS
CacheFreshInclusive(now, at) == (now - at) <= CACHE_TTL_SECONDS

\* (now - _cached_at).total_seconds() < CACHE_TTL_SECONDS
CacheFresh(now, at) == (now - at) < CACHE_TTL_SECONDS

\* the condition under which _get_briefing returns the cached briefing
CacheHit(force_refresh, b, at, now) ==
    /\ ~force_refresh
    /\ b # NoBriefing
    /\ at # NoNumber
    /\ CacheFresh(now, at)

\* the time of the store instead of the time of arrival
StoredAtClock(r, time) == time

\* the value _get_briefing stores in _cached_at, given the time of the store
StoredAt(r, time) == r.now

InitCache ==
    /\ clock = 0
    /\ db = CacheStore
    /\ reality = RealitySnapshot(IsoFormat(0), 0, <<>>, <<>>, <<>>)
    /\ claims_in = <<>>
    /\ call = NoCall
    /\ briefing = NoBriefing
    /\ CacheIdle

DetectorUnchanged == UNCHANGED <<db, reality, claims_in, call, briefing>>

\* the generated_at of an Optional[OrientationBriefing]
GeneratedAt(b) == IF b = NoBriefing THEN None ELSE b.generated_at

\* _get_briefing up to its return on a hit, or up to the await inside full_scan:
\* now is read, the cache tested, then t0 is read and the local probes run
Begin(force_refresh, drift) ==
    /\ clock + drift <= MaxClock
    /\ MayDrift(clock, drift)
    /\ LET now == clock
           r == [force |-> force_refresh, now |-> now,
                 seen_generated_at |-> GeneratedAt(cached_briefing), seen_at |-> cached_at]
       IN  IF CacheHit(force_refresh, cached_briefing, cached_at, now)
           THEN /\ drift = 0
                /\ ret' = r @@ [hit |-> TRUE, t0 |-> NoNumber, result |-> cached_briefing]
                /\ UNCHANGED <<clock, pending>>
           ELSE /\ Len(pending) < MaxPending
                /\ clock' = clock + drift
                /\ pending' = Append(pending, r @@ [t0 |-> clock', filesystem |-> ScanFilesystem({})])
                /\ UNCHANGED ret
    /\ overlapped' = (overlapped \/ Len(pending) > 0)
    /\ UNCHANGED <<cached_briefing, cached_at, written>>
    /\ DetectorUnchanged

\* pending without its i-th call
Remove(i) == SubSeq(pending, 1, i - 1) \o SubSeq(pending, i + 1, Len(pending))

\* lines 45-47 of _get_briefing for the call r and its briefing b: the two
\* stores, with no await between them, and the return
StoreAndReturn(r, b) ==
    /\ cached_briefing' = b
    /\ cached_at' = StoredAt(r, clock)
    /\ ret' = [force |-> r.force, now |-> r.now,
               seen_generated_at |-> r.seen_generated_at, seen_at |-> r.seen_at,
               hit |-> FALSE, t0 |-> r.t0, result |-> b]
    /\ written' = [now |-> r.now, t0 |-> r.t0, result |-> b, replaced |-> cached_at]

\* _get_briefing from the join of the service probes to its return: the
\* snapshot is built, the detector and the synthesizer run, the slot is written
Finish(i, services) ==
    /\ i \in 1..Len(pending)
    /\ LET r == pending[i]
           snapshot == RealitySnapshot(IsoFormat(r.t0), (clock - r.t0) * 1000, CacheGit, services,
                                       r.filesystem)
           claims == DetectIllusions(db, clock, snapshot).out
       IN  StoreAndReturn(r, Synthesize(snapshot, claims))
    /\ pending' = Remove(i)
    /\ UNCHANGED <<clock, overlapped>>
    /\ DetectorUnchanged

\* what a call whose pipeline raised gives its caller: no briefing
Thrown(r) ==
    [force |-> r.force, now |-> r.now,
     seen_generated_at |-> r.seen_generated_at, seen_at |-> r.seen_at,
     hit |-> FALSE, t0 |-> r.t0, result |-> NoBriefing]

\* a pipeline that empties the slot when it raises
RaiseClearsSlot(i) ==
    /\ i \in 1..Len(pending)
    /\ ret' = Thrown(pending[i])
    /\ pending' = Remove(i)
    /\ cached_briefing' = NoBriefing
    /\ cached_at' = NoNumber
    /\ UNCHANGED <<clock, written, overlapped>>
    /\ DetectorUnchanged

\* lines 42-44 of _get_briefing raise (the awaited scan is cancelled, or the
\* detector or the synthesizer raises): the exception leaves _get_briefing
\* before line 45
Raise(i) ==
    /\ i \in 1..Len(pending)
    /\ ret' = Thrown(pending[i])
    /\ pending' = Remove(i)
    /\ UNCHANGED <<clock, cached_briefing, cached_at, written, overlapped>>
    /\ DetectorUnchanged

\* time passes
Tick(d) ==
    /\ clock + d <= MaxClock
    /\ clock' = clock + d
    /\ UNCHANGED <<pending, ret, cached_briefing, cached_at, written, overlapped>>
    /\ DetectorUnchanged

NextCache ==
    \/ \E f \in BOOLEAN, d \in DriftSteps : Begin(f, d)
    \/ \E i \in 1..MaxPending, s \in CacheServiceOptions : Finish(i, s)
    \/ \E d \in TickSteps : Tick(d)

SpecCache == InitCache /\ [][NextCache]_vars

\* the runs in which a pipeline may raise; the two clock reads of a call give
\* the same time
NextCacheRaise ==
    \/ \E f \in BOOLEAN : Begin(f, 0)
    \/ \E i \in 1..MaxPending, s \in CacheServiceOptions : Finish(i, s)
    \/ \E i \in 1..MaxPending : Raise(i)
    \/ \E d \in TickSteps : Tick(d)

SpecCacheRaise == InitCache /\ [][NextCacheRaise]_vars


-----------------------------------------------------------------------------
(* Claims about the briefing cache, checked under SpecCache.                *)

\* a call with the given force_refresh arrives in this step
Arrived(f) ==
    \/ /\ Len(pending') = Len(pending) + 1
       /\ pending'[Len(pending')].force = f
    \/ /\ pending' = pending
       /\ ret' # ret
       /\ ret'.force = f

SlotFresh ==
    /\ cached_briefing # NoBriefing
    /\ cached_at # NoNumber
    /\ clock - cached_at < CACHE_TTL_SECONDS

\* C1: a call without force_refresh that arrives while the slot holds a
\* briefing stored less than CACHE_TTL_SECONDS before the arrival returns
\* that briefing, with its generated_at, starts no scan and leaves
\* _cached_briefing and _cached_at as they were.
C1_CacheHit ==
    [][(Arrived(FALSE) /\ SlotFresh) =>
          /\ pending' = pending
          /\ ret'.hit
          /\ ret'.t0 = NoNumber
          /\ ret'.result = cached_briefing
          /\ ret'.result.generated_at = cached_briefing.generated_at
          /\ cached_briefing' = cached_briefing
          /\ cached_at' = cached_at]_vars

\* the last call to return was served from the slot, some time after the slot
\* was written
C1_Witness ==
    /\ ret # NoReturn
    /\ ret.hit
    /\ ~ret.force
    /\ ret.now > ret.seen_at
    /\ cached_at = ret.seen_at
    /\ cached_briefing = ret.result

\* the number a decimal numeral stands for
RECURSIVE Numeral(_)
Numeral(s) ==
    IF Len(s) = 0 THEN 0
    ELSE LET last == SubSeq(s, Len(s), Len(s))
             d == CHOOSE k \in 0..9 : SubSeq(Digits, k + 1, k + 1) = last
         IN  Numeral(SubSeq(s, 1, Len(s) - 1)) * 10 + d

\* the instant a timestamp of the form YYYY-MM-DDTHH:MM:SS+00:00 names, in
\* seconds since midnight of Day
IsoTime(s) ==
    Numeral(SubSeq(s, 12, 13)) * 3600 + Numeral(SubSeq(s, 15, 16)) * 60
        + Numeral(SubSeq(s, 18, 19))

\* the call that returned last arrived, without force_refresh, at an empty
\* slot or at one stored at least CACHE_TTL_SECONDS before
Expired(r) ==
    /\ ~r.force
    /\ \/ r.seen_at = NoNumber
       \/ r.now - r.seen_at >= CACHE_TTL_SECONDS

\* C2: when calls do not overlap, a call without force_refresh that arrives at
\* an empty slot, or at a slot stored at least CACHE_TTL_SECONDS before, is
\* not served from the slot: it scans, its briefing carries the time of its
\* scan, the slot holds that briefing and the call's arrival time, and the
\* briefing's generated_at is later than that of the briefing it found.
C2_CacheExpiry ==
    (ret # NoReturn /\ ~overlapped /\ Expired(ret)) =>
        /\ ~ret.hit
        /\ ret.t0 # NoNumber
        /\ ret.result # NoBriefing
        /\ ret.result.generated_at = IsoFormat(ret.t0)
        /\ cached_briefing = ret.result
        /\ cached_at = ret.now
        /\ ret.seen_generated_at # None =>
               IsoTime(ret.result.generated_at) > IsoTime(ret.seen_generated_at)

\* a call found a briefing exactly CACHE_TTL_SECONDS old and replaced it
C2_Witness ==
    /\ ret # NoReturn
    /\ ~overlapped
    /\ ~ret.force
    /\ ~ret.hit
    /\ ret.seen_at # NoNumber
    /\ ret.now - ret.seen_at = CACHE_TTL_SECONDS
    /\ cached_at = ret.now

\* C3: in every interleaving of calls the slot is either empty in both
\* variables or holds the briefing and the arrival time of one call, the call
\* that wrote last; this holds in particular once no call is pending.
C3_SlotIsOnePair ==
    /\ cached_briefing = NoBriefing <=> cached_at = NoNumber
    /\ written = NoWrite => cached_briefing = NoBriefing /\ cached_at = NoNumber
    /\ written # NoWrite =>
           /\ cached_briefing = written.result
           /\ cached_at = written.now
           /\ cached_briefing.generated_at = IsoFormat(written.t0)

\* calls overlapped, all have returned, and the call that wrote last replaced
\* the pair of a call that arrived after it
C3_Witness ==
    /\ overlapped
    /\ pending = <<>>
    /\ written # NoWrite
    /\ written.replaced # NoNumber
    /\ written.replaced > written.now
    /\ cached_at = written.now

-----------------------------------------------------------------------------
(* scanner.py: the repository probe *)

\* str.strip(): the whitespace is the blank, the tabulator and the two line
\* ends
RECURSIVE Strip(_)
Strip(s) ==
    IF Len(s) > 0 /\ SubSeq(s, 1, 1) \in {" ", "\t", "\n", "\r"}
    THEN Strip(Suffix(s, 1))
    ELSE IF Len(s) > 0 /\ SubSeq(s, Len(s), Len(s)) \in {" ", "\t", "\n", "\r"}
    THEN Strip(SubSeq(s, 1, Len(s) - 1))
    ELSE s

\* str.splitlines() of a text whose lines end in "\n"
RECURSIVE SplitLines(_)
SplitLines(s) ==
    IF Len(s) = 0 THEN <<>>
    ELSE LET ends == {i \in 1..Len(s) : SubSeq(s, i, i) = "\n"}
         IN  IF ends = {} THEN <<s>>
             ELSE LET k == CHOOSE i \in ends : \A j \in ends : i <= j
                  IN  <<SubSeq(s, 1, k - 1)>> \o SplitLines(Suffix(s, k))

\* what subprocess.run did for one git query: it returned with a return code
\* and a standard output, or it raised (timeout, no git executable)
Ran(returncode, stdout) == [raised |-> FALSE, returncode |-> returncode, stdout |-> stdout]
RunRaised == [raised |-> TRUE, returncode |-> NoNumber, stdout |-> None]

\* _git: the stripped standard output, or None
Git(run) ==
    IF run.raised THEN None
    ELSE IF run.returncode = 0 THEN Strip(run.stdout)
    ELSE None

\* GitState(repo_name=name, repo_path=path, available=...) with its defaults
NewGitState(name, available) ==
    [repo_name    |-> name,
     available    |-> available,
     head_commit  |-> None,
     branch       |-> None,
     untracked    |-> <<>>,
     modified     |-> <<>>,
     staged       |-> <<>>,
     ahead_behind |-> None,
     error        |-> None]

\* the loop of scan_repo over the lines of the porcelain status
RECURSIVE StatusInto(_, _)
StatusInto(state, lines) ==
    IF Len(lines) = 0 THEN state
    ELSE LET line == Head(lines)
             xy == Prefix(line, 2)
             fname == Strip(Suffix(line, 3))
         IN  IF Len(line) < 2 THEN StatusInto(state, Tail(lines))
             ELSE IF StartsWith(xy, "??")
             THEN StatusInto([state EXCEPT !.untracked = Append(@, fname)], Tail(lines))
             ELSE IF SubSeq(xy, 2, 2) # " "
             THEN StatusInto([state EXCEPT !.modified = Append(@, fname)], Tail(lines))
             ELSE IF SubSeq(xy, 1, 1) # " "
             THEN StatusInto([state EXCEPT !.staged = Append(@, fname)], Tail(lines))
             ELSE StatusInto(state, Tail(lines))

\* a head query that failed leaves the error and not the flag
NotARepositoryErrorOnly(state) ==
    [state EXCEPT !.error = "Not a git repository or git not available"]

\* lines 113-114 of scan_repo
NotARepository(state) ==
    [state EXCEPT !.available = FALSE,
                  !.error = "Not a git repository or git not available"]

\* scan_repo, given whether the path exists and what the four queries did
ScanRepo(name, path, env) ==
    LET state == NewGitState(name, env.exists)
    IN  IF ~state.available
        THEN [state EXCEPT !.error = "Path not found: " \o path]
        ELSE LET head == Git(env.head)
             IN  IF head = None THEN NotARepository(state)
                 ELSE LET s1 == [state EXCEPT !.head_commit = head,
                                              !.branch = Git(env.branch)]
                          status_raw == Git(env.status)
                          s2 == IF Truthy(status_raw)
                                THEN StatusInto(s1, SplitLines(status_raw))
                                ELSE s1
                          ab == Git(env.ab)
                      IN  IF Truthy(ab) THEN [s2 EXCEPT !.ahead_behind = ab] ELSE s2

-----------------------------------------------------------------------------
(* scanner.py: the service probes *)

\* ServiceState(name=name, url=url, reachable=False) with its defaults
NewServiceState(name) ==
    [name        |-> name,
     reachable   |-> FALSE,
     status_code |-> NoNumber,
     response_ms |-> NoNumber,
     version     |-> None,
     error       |-> None]

\* a body that is no JSON
NoJson == [not_json |-> TRUE]

\* what the GET of a probe did: it answered, with a status code, after a time
\* in hundredths of a millisecond and with a body, or it raised an exception
\* with a message
Answered(status_code, elapsed, body) ==
    [answered |-> TRUE, status_code |-> status_code, elapsed |-> elapsed, body |-> body,
     message |-> None]
Failed(message) ==
    [answered |-> FALSE, status_code |-> NoNumber, elapsed |-> NoNumber, body |-> NoJson,
     message |-> message]

\* a body that is a JSON object, with the three fields version is read from
JsonBody(version, v, app_version) ==
    [version |-> version, v |-> v, app_version |-> app_version]

\* round(x, 1), from hundredths to tenths
Round1(hundredths) == (hundredths + 5) \div 10

\* body.get("version") or body.get("v") or body.get("app_version"); resp.json()
\* raises on a body that is no JSON, and the probe passes over it
VersionOf(body) ==
    IF body = NoJson THEN None
    ELSE IF Truthy(body.version) THEN body.version
    ELSE IF Truthy(body.v) THEN body.v
    ELSE body.app_version

\* probe_service_async, given what its GET did
ProbeServiceAsync(name, get) ==
    LET state == NewServiceState(name)
    IN  IF get.answered
        THEN [state EXCEPT !.reachable = TRUE,
                           !.status_code = get.status_code,
                           !.response_ms = Round1(get.elapsed),
                           !.version = VersionOf(get.body)]
        ELSE [state EXCEPT !.error = Prefix(get.message, 120)]

\* what a task of asyncio.gather(..., return_exceptions=True) ended with: the
\* value it returned (probe_service_async catches every Exception of its GET,
\* so no task ends with one), or nothing yet
Returned(state) == [is_exception |-> FALSE, state |-> state, message |-> None]
NotDone == [pending |-> TRUE]

\* the results from the last task to the first
GatherReversed(results) == [k \in 1..Len(results) |-> results[Len(results) + 1 - k]]

\* the list asyncio.gather returns: the results in the order of the tasks,
\* whatever the order in which the tasks ended
Gather(results) == results

\* lines 184-190 of scan_services_async: one ServiceState per name of SERVICES
ServicesOut(results) ==
    [i \in 1..Len(SERVICES) |->
        IF results[i].is_exception
        THEN [NewServiceState(SERVICES[i]) EXCEPT !.error = results[i].message]
        ELSE results[i].state]

-----------------------------------------------------------------------------
(* scanner.py: the store probes *)

\* what a call gives its caller when an exception leaves it
Propagated == [exception |-> TRUE]

\* what a query, or the opening of the connection, did: it gave a value (a
\* count, a row, None for no row) or it raised with a message
Gave(value) == [ok |-> TRUE, value |-> value, message |-> None]
Threw(message) == [ok |-> FALSE, value |-> None, message |-> message]

\* fetchone() of a query that selects no row
NoRow == [none |-> TRUE]

\* round(embedded / total * 100, 1), in tenths of a percent
CoveragePct(embedded, total) == (embedded * 2000 + total) \div (2 * total)

\* LibrarianState(db_path=db_path, readable=...) with its defaults
NewLibrarianState(readable) ==
    [readable               |-> readable,
     total_guidance         |-> 0,
     current_focus_count    |-> 0,
     essence_count          |-> 0,
     recent_handoff         |-> None,
     embedding_coverage_pct |-> 0,
     error                  |-> None]

\* the try block of scan_librarian from its k-th query on; q holds what the
\* five queries do, and the first that raises ends the block with its message
RECURSIVE LibrarianQueries(_, _, _)
LibrarianQueries(state, q, k) ==
    IF k > Len(q) THEN state
    ELSE IF ~q[k].ok THEN [state EXCEPT !.error = q[k].message]
    ELSE LET v == q[k].value
             next ==
                 CASE k = 1 -> [state EXCEPT !.total_guidance = v]
                   [] k = 2 -> [state EXCEPT !.current_focus_count = v]
                   [] k = 3 -> [state EXCEPT !.essence_count = v]
                   [] k = 4 -> IF state.total_guidance > 0
                               THEN [state EXCEPT !.embedding_coverage_pct =
                                        CoveragePct(v, state.total_guidance)]
                               ELSE state
                   [] OTHER -> IF v # None THEN [state EXCEPT !.recent_handoff = v]
                               ELSE state
         IN  LibrarianQueries(next, q, k + 1)

\* a probe that lets the exception of a failed connection leave it
ScanLibrarianUnguarded(path, env) ==
    IF env.exists /\ ~env.connect.ok THEN Propagated
    ELSE LibrarianQueries(NewLibrarianState(env.exists), env.queries, 1)

\* scan_librarian, given whether the file exists and what sqlite3 did
ScanLibrarian(path, env) ==
    LET state == NewLibrarianState(env.exists)
    IN  IF ~state.readable THEN [state EXCEPT !.error = "DB not found: " \o path]
        ELSE IF ~env.connect.ok THEN [state EXCEPT !.error = env.connect.message]
        ELSE LibrarianQueries(state, env.queries, 1)

\* SapphireState(db_path=db_path, readable=...) with its defaults
NewSapphireState(readable) ==
    [readable             |-> readable,
     routing_observations |-> 0,
     detected_patterns    |-> 0,
     unapplied_patterns   |-> 0,
     recent_observation   |-> None,
     error                |-> None]

\* lines 245-254 of scan_sapphire: the count of the observations, then the
\* latest one; a query that raises ends the block and is passed over
SapphireObservations(state, q) ==
    IF ~q[1].ok THEN state
    ELSE LET s1 == [state EXCEPT !.routing_observations = q[1].value]
         IN  IF ~q[2].ok \/ q[2].value = NoRow THEN s1
             ELSE [s1 EXCEPT !.recent_observation =
                      q[2].value.observed_at \o ": " \o Prefix(q[2].value.query_text, 80)]

\* lines 256-262 of scan_sapphire: the two counts of the patterns
SapphirePatterns(state, q) ==
    IF ~q[3].ok THEN state
    ELSE LET s1 == [state EXCEPT !.detected_patterns = q[3].value]
         IN  IF ~q[4].ok THEN s1
             ELSE [s1 EXCEPT !.unapplied_patterns = q[4].value]

\* scan_sapphire, given whether the file exists and what sqlite3 did
ScanSapphire(path, env) ==
    LET state == NewSapphireState(env.exists)
    IN  IF ~state.readable THEN [state EXCEPT !.error = "DB not found: " \o path]
        ELSE IF ~env.connect.ok THEN [state EXCEPT !.error = env.connect.message]
        ELSE SapphirePatterns(SapphireObservations(state, env.queries), env.queries)

-----------------------------------------------------------------------------
(* scanner.py: full_scan, and the runs of it.  The local probes run without  *)
(* interruption (ScanLocal); the service probes are tasks of one gather and  *)
(* end in any order (ProbeDone); full_scan resumes when all have ended       *)
(* (Join).                                                                   *)

\* config.py: the paths of REPOS, in order, and of the two stores
RepoPaths ==
    <<"C:\\Users\\grego\\Desktop\\CloudEye\\production\\cloudeye-coach",
      "C:\\Users\\grego\\Desktop\\CloudEye\\production\\lxr-5",
      "C:\\Users\\grego\\Desktop\\CloudEye\\production\\cloudeye-lxr-railway",
      "C:\\Users\\grego\\Desktop\\CloudEye\\production\\cloudeye-ui",
      "C:\\Users\\grego\\Desktop\\CloudEye\\production\\omni-os-blueprint",
      "C:\\Users\\grego\\Desktop\\CloudEye\\production\\cloud-eye-mcp-bridge">>
LIBRARIAN_DB == "C:\\Users\\grego\\Desktop\\LearningWorkflow\\librarian.db"
SAPPHIRE_DB == "C:\\Users\\grego\\Desktop\\LearningWorkflow\\sapphire_torus.db"

\* a repository as scan_repo finds it
RepoEnv(exists, head, branch, status, ab) ==
    [exists |-> exists, head |-> head, branch |-> branch, status |-> status, ab |-> ab]

\* the repositories the runs meet: the path is missing; the path is no
\* repository; a clean one; one with a modified file in the first line of its
\* status, an untracked file, a staged file and a file both staged and
\* modified, and no upstream; one whose branch query timed out; one whose
\* status query failed
RepoEnvs ==
    <<RepoEnv(FALSE, RunRaised, RunRaised, RunRaised, RunRaised),
      RepoEnv(TRUE, Ran(128, ""), Ran(128, ""), Ran(128, ""), Ran(128, "")),
      RepoEnv(TRUE, Ran(0, "1a2b3c4\n"), Ran(0, "master\n"), Ran(0, ""), Ran(0, "0\t0\n")),
      RepoEnv(TRUE, Ran(0, "9f8e7d6\n"), Ran(0, "main\n"),
              Ran(0, " M engine.py\n?? notes.md\nM  api.py\nMM scanner.py\n"), Ran(128, "")),
      RepoEnv(TRUE, Ran(0, "1a2b3c4\n"), RunRaised, Ran(0, ""), Ran(128, "")),
      RepoEnv(TRUE, Ran(0, "1a2b3c4\n"), Ran(0, "master\n"), Ran(1, ""), Ran(0, "2\t0\n"))>>

\* the repositories of a run: the first is any of RepoEnvs, the others are fixed
GitEnvs ==
    {<<RepoEnvs[k], RepoEnvs[1], RepoEnvs[3], RepoEnvs[6], RepoEnvs[4], RepoEnvs[5]>> :
        k \in 1..Len(RepoEnvs)}

\* a store as scan_librarian or scan_sapphire finds it
StoreEnv(exists, connect, queries) ==
    [exists |-> exists, connect |-> connect, queries |-> queries]

\* the two stores of a run, the librarian first: both files are missing; the
\* librarian cannot be opened; the sapphire store has no pattern tables; the
\* second count query of the librarian fails and the sapphire store cannot be
\* opened
StoreEnvs ==
    {<<StoreEnv(FALSE, Threw("unable to open database file"), <<>>),
       StoreEnv(FALSE, Threw("unable to open database file"), <<>>)>>,
     <<StoreEnv(TRUE, Threw("unable to open database file"), <<>>),
       StoreEnv(TRUE, Gave(0),
                <<Gave(5), Gave([observed_at |-> "2026-01-01T00:00:00", query_text |-> "route"]),
                  Gave(2), Gave(1)>>)>>,
     <<StoreEnv(TRUE, Gave(0),
                <<Gave(12), Gave(3), Gave(4), Gave(7), Gave("PHOENIX HANDOFF 7")>>),
       StoreEnv(TRUE, Gave(0),
                <<Gave(0), Gave(NoRow), Threw("no such table: detected_patterns"), Gave(0)>>)>>,
     <<StoreEnv(TRUE, Gave(0),
                <<Gave(12), Threw("no such column: priority"), Gave(4), Gave(7), Gave(None)>>),
       StoreEnv(TRUE, Threw("unable to open database file"), <<>>)>>}

\* the registered paths that do not exist in a run
MissingOptions == {{}, {"omni/path_tau/README.md", "librarian_db"}}

ScanEnvs ==
    {[git |-> g, librarian |-> st[1], sapphire |-> st[2], missing |-> m] :
        g \in GitEnvs, st \in StoreEnvs, m \in MissingOptions}

\* what the GET of the i-th service may do in a run
GetOutcomes(i) ==
    {Answered(200, 12345, JsonBody(None, "1.4.2", None)),
     Failed("All connection attempts failed")}
    \cup (IF i % 2 = 1 THEN {Failed("")} ELSE {Answered(503, 801, NoJson)})

\* the seconds a scan may take
ScanSeconds == {0, 8}

InitScan ==
    /\ clock = 0
    /\ db = NoStore
    /\ reality = RealitySnapshot(IsoFormat(0), 0, <<>>, <<>>, <<>>)
    /\ claims_in = <<>>
    /\ call \in {[op |-> "full_scan", pc |-> "start", env |-> e] : e \in ScanEnvs}
    /\ briefing = NoBriefing
    /\ CacheIdle

\* the frame of full_scan once the local probes have returned
Probing(c, t0, git_states, fs_state, lib_state, sap_state) ==
    IF \/ \E i \in 1..Len(REPOS) : git_states[i] = Propagated
       \/ lib_state = Propagated
       \/ sap_state = Propagated
    THEN [op |-> "full_scan", pc |-> "raised", env |-> c.env]
    ELSE [op |-> "full_scan", pc |-> "probing", env |-> c.env, t0 |-> t0,
          git |-> git_states, filesystem |-> fs_state,
          librarian |-> lib_state, sapphire |-> sap_state,
          gets |-> [i \in 1..Len(SERVICES) |-> NotDone],
          results |-> [i \in 1..Len(SERVICES) |-> NotDone]]

\* lines 290-299 of full_scan, up to the await
ScanLocal ==
    /\ call.op = "full_scan"
    /\ call.pc = "start"
    /\ call' = Probing(call, clock,
                       [i \in 1..Len(REPOS) |-> ScanRepo(REPOS[i], RepoPaths[i], call.env.git[i])],
                       ScanFilesystem(call.env.missing),
                       ScanLibrarian(LIBRARIAN_DB, call.env.librarian),
                       ScanSapphire(SAPPHIRE_DB, call.env.sapphire))
    /\ UNCHANGED <<clock, db, reality, claims_in, briefing>>
    /\ CacheUnchanged

\* the task of the i-th service ends
ProbeDone(i, get) ==
    /\ call.op = "full_scan"
    /\ call.pc = "probing"
    /\ call.results[i] = NotDone
    /\ call' = [call EXCEPT !.gets[i] = get,
                            !.results[i] = Returned(ProbeServiceAsync(SERVICES[i], get))]
    /\ UNCHANGED <<clock, db, reality, claims_in, briefing>>
    /\ CacheUnchanged

\* a join that stamps the snapshot with the time of its construction
JoinStampedAtEnd(d) ==
    /\ call.op = "full_scan"
    /\ call.pc = "probing"
    /\ \A i \in 1..Len(SERVICES) : call.results[i] # NotDone
    /\ clock' = clock + d
    /\ reality' = RealitySnapshot(IsoFormat(clock'), (clock' - call.t0) * 1000, call.git,
                                  ServicesOut(Gather(call.results)), call.filesystem)
                      @@ [librarian |-> call.librarian, sapphire |-> call.sapphire]
    /\ call' = [call EXCEPT !.pc = "done"]
    /\ UNCHANGED <<db, claims_in, briefing>>
    /\ CacheUnchanged

\* lines 183-190 of scan_services_async and 301-311 of full_scan, d seconds
\* after the start of the scan
Join(d) ==
    /\ call.op = "full_scan"
    /\ call.pc = "probing"
    /\ \A i \in 1..Len(SERVICES) : call.results[i] # NotDone
    /\ clock' = clock + d
    /\ reality' = RealitySnapshot(IsoFormat(call.t0), (clock' - call.t0) * 1000, call.git,
                                  ServicesOut(Gather(call.results)), call.filesystem)
                      @@ [librarian |-> call.librarian, sapphire |-> call.sapphire]
    /\ call' = [call EXCEPT !.pc = "done"]
    /\ UNCHANGED <<db, claims_in, briefing>>
    /\ CacheUnchanged

NextScan ==
    \/ ScanLocal
    \/ \E i \in 1..Len(SERVICES) : \E get \in GetOutcomes(i) : ProbeDone(i, get)
    \/ \E d \in ScanSeconds : Join(d)

SpecScan == InitScan /\ [][NextScan]_vars

-----------------------------------------------------------------------------
(* Properties of the scan, checked under SpecScan *)

LocalDone == call.op = "full_scan" /\ call.pc \in {"probing", "done"}
Scanned == call.op = "full_scan" /\ call.pc = "done"

\* C11: the snapshot holds one ServiceState per name of SERVICES, in registry
\* order, and the state of each service is the one its own probe returned,
\* decided by its own GET alone: reachable with the status code when the GET
\* answered, unreachable when it failed, whatever the other probes did.
C11_ProbesIsolated ==
    Scanned =>
        /\ Len(reality.services) = Len(SERVICES)
        /\ \A i \in 1..Len(SERVICES) :
              LET s == reality.services[i]
                  get == call.gets[i]
              IN  /\ s.name = SERVICES[i]
                  /\ s = call.results[i].state
                  /\ s.reachable = get.answered
                  /\ get.answered =>
                        /\ s.status_code = get.status_code
                        /\ s.error = None
                  /\ ~get.answered =>
                        /\ s.status_code = NoNumber
                        /\ s.error = Prefix(get.message, 120)

\* a scan in which the first and the last probe failed and the probes between
\* them answered
C11_Witness ==
    /\ Scanned
    /\ ~call.gets[1].answered
    /\ ~call.gets[Len(SERVICES)].answered
    /\ \A i \in 2..(Len(SERVICES) - 1) :
          call.gets[i].answered /\ reality.services[i].reachable

\* the snapshot has a GitState per repository and a ServiceState per service,
\* in registry order, the two store states and a flag per registered path
SnapshotComplete ==
    /\ Len(reality.git) = Len(REPOS)
    /\ \A i \in 1..Len(REPOS) :
          reality.git[i].repo_name = REPOS[i] /\ reality.git[i].available \in BOOLEAN
    /\ Len(reality.services) = Len(SERVICES)
    /\ \A i \in 1..Len(SERVICES) :
          reality.services[i].name = SERVICES[i] /\ reality.services[i].reachable \in BOOLEAN
    /\ reality.librarian.readable \in BOOLEAN
    /\ reality.sapphire.readable \in BOOLEAN
    /\ Len(reality.filesystem) = Len(KEY_FILES)
    /\ \A i \in 1..Len(KEY_FILES) :
          reality.filesystem[i].key = KEY_FILES[i] /\ reality.filesystem[i].exists \in BOOLEAN

\* C12: whatever the repositories, the paths, the stores and the services do,
\* no exception leaves full_scan, a scan whose local probes are done can
\* finish a service probe or join, and a scan that has returned has returned a
\* complete snapshot.  (The local probes are one step guarded by the position
\* alone, so a scan at its start can always take it.)
C12_ScanCompletes ==
    call.op = "full_scan" =>
        /\ call.pc \in {"start", "probing", "done"}
        /\ call.pc = "probing" =>
              ENABLED ((\E i \in 1..Len(SERVICES) : \E get \in GetOutcomes(i) : ProbeDone(i, get))
                       \/ \E d \in ScanSeconds : Join(d))
        /\ Scanned => SnapshotComplete

\* a scan that returned although a repository, a path, a store and a service
\* failed
C12_Witness ==
    /\ Scanned
    /\ SnapshotComplete
    /\ ~reality.git[1].available
    /\ reality.librarian.error # None
    /\ \E i \in 1..Len(SERVICES) : ~reality.services[i].reachable
    /\ \E i \in 1..Len(KEY_FILES) : ~reality.filesystem[i].exists

\* C13: a GitState of scan_repo that is not available has no head and a
\* non-empty error; one that is available has a head and no error.
C13_GitStateConsistent ==
    LocalDone =>
        \A i \in 1..Len(REPOS) :
            LET g == call.git[i]
            IN  /\ ~g.available => g.head_commit = None /\ g.error # None /\ g.error # ""
                /\ g.available => g.head_commit # None /\ g.error = None

\* the path of the first repository exists and its head query failed
C13_Witness ==
    /\ LocalDone
    /\ call.env.git[1].exists
    /\ Git(call.env.git[1].head) = None
    /\ ~call.git[1].available
    /\ \E i \in 2..Len(REPOS) : call.git[i].available

\* C14: a ServiceState of a snapshot that is unreachable has a non-empty
\* error, and one that is reachable has a status code and a response time.
C14_ServiceStateConsistent ==
    Scanned =>
        \A i \in 1..Len(SERVICES) :
            LET s == reality.services[i]
            IN  /\ ~s.reachable => s.error # None /\ s.error # ""
                /\ s.reachable => s.status_code # NoNumber /\ s.response_ms # NoNumber

\* the query did not give an answer
QueryFailed(run) == run.raised \/ run.returncode # 0

\* C20: when the path exists and one of the four git queries fails, the
\* GitState is not available and has a non-empty error.
C20_AnyQueryFailure ==
    LocalDone =>
        \A i \in 1..Len(REPOS) :
            LET e == call.env.git[i]
                g == call.git[i]
            IN  (/\ e.exists
                 /\ \/ QueryFailed(e.head)
                    \/ QueryFailed(e.branch)
                    \/ QueryFailed(e.status)
                    \/ QueryFailed(e.ab))
                => ~g.available /\ g.error # None /\ g.error # ""

-----------------------------------------------------------------------------
(* engine.py: the work order.  The pictographs that open the lines of the   *)
(* work order, the dash and the arrow are written here by ASCII stand-ins:  *)
(* "[warn]", "[yellow]", "[ok]", "-" and "->".                              *)

\* sep.join(items)
RECURSIVE StrJoin(_, _)
StrJoin(sep, items) ==
    IF Len(items) = 0 THEN ""
    ELSE IF Len(items) = 1 THEN items[1]
    ELSE items[1] \o sep \o StrJoin(sep, Tail(items))

\* a work order that lets the rule of the PNS appendix take the slot from the
\* rule of Path Tau
DeriveWorkOrderLastWins(snapshot, illusions) ==
    LET down_svcs == DownServices(snapshot)
        flag(key) == \E i \in 1..Len(snapshot.filesystem) :
                        snapshot.filesystem[i].key = key /\ snapshot.filesystem[i].exists
    IN  [work_order |-> "",
         next_action |->
            IF Len(down_svcs) > 0
            THEN "Investigate why " \o down_svcs[1] \o " is unreachable - check Railway logs"
            ELSE IF ~flag("coach/APPENDIX_PERSISTENCE_NERVOUS_SYSTEM.md")
            THEN "Commit APPENDIX_PERSISTENCE_NERVOUS_SYSTEM.md to cloudeye-coach (file in Telegram msg 639)"
            ELSE IF ~flag("omni/path_tau/README.md")
            THEN "Download path_tau_scaffold.ps1 from Telegram (~msg 622), execute, commit to omni-os-blueprint"
            ELSE "Proceed with current focus: LXR-5 bridge bug fix (4 SQL errors)"]

\* a work order whose all-clear rule does not look at the lines
DeriveWorkOrderAlwaysClear(snapshot, illusions) ==
    [work_order |-> "[ok] No critical issues detected. System appears healthy.",
     next_action |-> "Proceed with current focus: LXR-5 bridge bug fix (4 SQL errors)"]

\* _derive_work_order: the rules in the order of the code, each appending to
\* the lines and the next action of the rules before it
DeriveWorkOrder(snapshot, illusions) ==
    LET get(key, default) ==
            IF \E i \in 1..Len(snapshot.filesystem) : snapshot.filesystem[i].key = key
            THEN LET i == CHOOSE i \in 1..Len(snapshot.filesystem) :
                              snapshot.filesystem[i].key = key
                 IN  snapshot.filesystem[i].exists
            ELSE default
        down_svcs == DownServices(snapshot)
        lines1 == IF Len(down_svcs) > 0
                  THEN <<"[warn] CRITICAL: Services unreachable: " \o StrJoin(", ", down_svcs)>>
                  ELSE <<>>
        next1 == IF Len(down_svcs) > 0
                 THEN "Investigate why " \o down_svcs[1] \o " is unreachable - check Railway logs"
                 ELSE "Review current focus entries in Librarian and orient to system state."
        high_illusions == SelectSeq(illusions,
                              LAMBDA c : c.verdict = ILLUSION /\ c.severity = SEVERITY_HIGH)
        lines2 == lines1 \o
                  [k \in 1..Min(3, Len(high_illusions)) |->
                      "[warn] ILLUSION (" \o high_illusions[k].claim_type \o "): "
                      \o Prefix(high_illusions[k].claim_text, 80)
                      \o " -> actually: " \o FStr(high_illusions[k].actual_value)]
        coach_git == SelectSeq(snapshot.git, LAMBDA g : g.repo_name = "coach")
        lines3 == IF Len(coach_git) > 0 /\ Len(coach_git[1].untracked) > 0
                  THEN lines2
                       \o <<"[yellow] " \o IntStr(Len(coach_git[1].untracked))
                            \o " untracked files in coach repo - commit or discard:">>
                       \o [k \in 1..Min(4, Len(coach_git[1].untracked)) |->
                              "   " \o coach_git[1].untracked[k]]
                  ELSE lines2
        forge_exists == get("omni/path_tau/README.md", FALSE)
        lines4 == IF ~forge_exists
                  THEN Append(lines3, "[yellow] Bonsai Forge (Path Tau) scaffold NOT committed to omni-os-blueprint")
                  ELSE lines3
        next4 == IF ~forge_exists /\ StartsWith(next1, "Review")
                 THEN "Download path_tau_scaffold.ps1 from Telegram (~msg 622), execute, commit to omni-os-blueprint"
                 ELSE next1
        pns_exists == get("coach/APPENDIX_PERSISTENCE_NERVOUS_SYSTEM.md", FALSE)
        lines5 == IF ~pns_exists
                  THEN Append(lines4, "[yellow] APPENDIX_PERSISTENCE_NERVOUS_SYSTEM.md not yet committed to coach repo")
                  ELSE lines4
        next5 == IF ~pns_exists /\ StartsWith(next4, "Review")
                 THEN "Commit APPENDIX_PERSISTENCE_NERVOUS_SYSTEM.md to cloudeye-coach (file in Telegram msg 639)"
                 ELSE next4
        clear == Len(lines5) = 0 /\ Len(down_svcs) = 0
        lines6 == IF clear
                  THEN Append(lines5, "[ok] No critical issues detected. System appears healthy.")
                  ELSE lines5
        next6 == IF clear
                 THEN "Proceed with current focus: LXR-5 bridge bug fix (4 SQL errors)"
                 ELSE next5
    IN  [work_order |-> StrJoin("\n", lines6), next_action |-> next6]

-----------------------------------------------------------------------------
(* Engine runs: _derive_work_order and _warning_level on a snapshot and a   *)
(* list of verified claims, as synthesize calls them                        *)

\* the lists of at most MaxClaims claims that carry a verdict: an illusion of
\* each severity and a verified claim of high severity
EngineClaimLists ==
    LET pool ==
            <<[Claim("3", "current_focus", "bug_active", "BUG 1: no such table", "bug:present",
                     SEVERITY_HIGH) EXCEPT !.verdict = ILLUSION, !.actual_value = "bug:fixed"],
              [Claim("1", "essence", "service_health", "coach: UP", "coach:UP",
                     SEVERITY_MEDIUM) EXCEPT !.verdict = ILLUSION, !.actual_value = "coach:DOWN"],
              [Claim("2", "essence", "git_commit", "at 1a2b3c4", "1a2b3c4",
                     SEVERITY_LOW) EXCEPT !.verdict = ILLUSION, !.actual_value = "coach:9f8e7d6"],
              [Claim("4", "essence", "bug_active", "BUG 2: sqlite3.Row", "bug:present",
                     SEVERITY_HIGH) EXCEPT !.verdict = VERIFIED, !.actual_value = "bug:present"]>>
    IN  {[i \in 1..Len(s) |-> pool[s[i]]] :
            s \in UNION {[1..k -> 1..Len(pool)] : k \in 0..MaxClaims}}

InitEngine ==
    /\ clock = 0
    /\ db = NoStore
    /\ reality \in
          {RealitySnapshot(IsoFormat(0), 0,
                           [i \in 1..Len(REPOS) |-> ScanRepo(REPOS[i], RepoPaths[i], g[i])],
                           s, f) :
              g \in GitEnvs,
              s \in ServiceOptions,
              f \in {ScanFilesystem(m) :
                        m \in SUBSET {"omni/path_tau/README.md",
                                      "coach/APPENDIX_PERSISTENCE_NERVOUS_SYSTEM.md"}}
                    \cup {<<>>,
                          <<[key |-> "coach/APPENDIX_PERSISTENCE_NERVOUS_SYSTEM.md",
                             exists |-> TRUE]>>}}
    /\ claims_in \in EngineClaimLists
    /\ call = NoCall
    /\ briefing = NoBriefing
    /\ CacheIdle

\* line 266 of synthesize
DeriveWorkOrderCall ==
    /\ call = NoCall
    /\ call' = [op |-> "_derive_work_order", out |-> DeriveWorkOrder(reality, claims_in)]
    /\ UNCHANGED <<clock, db, reality, claims_in, briefing>>
    /\ CacheUnchanged

\* lines 256-260 of synthesize
WarningLevelCall ==
    /\ call = NoCall
    /\ call' = [op |-> "_warning_level",
                out |-> WarningLevel(SelectSeq(claims_in, LAMBDA c : c.verdict = ILLUSION),
                                     DownServices(reality))]
    /\ UNCHANGED <<clock, db, reality, claims_in, briefing>>
    /\ CacheUnchanged

NextEngine == DeriveWorkOrderCall \/ WarningLevelCall

SpecEngine == InitEngine /\ [][NextEngine]_vars

-----------------------------------------------------------------------------
(* Properties of the work order, checked under SpecEngine *)

Derived == call # NoCall /\ call.op = "_derive_work_order"

\* the flag of a registered path in the snapshot; a key that is absent counts
\* as a path that does not exist
Flag(key) ==
    \E i \in 1..Len(reality.filesystem) :
        reality.filesystem[i].key = key /\ reality.filesystem[i].exists

\* the services of the snapshot that are unreachable, in registry order
Unreachable == SelectSeq(reality.services, LAMBDA s : ~s.reachable)

\* C15: the next action is that of the first rule that fires: the unreachable
\* service first in registry order, whatever the flags; else Path Tau when its
\* README is absent or false; else the PNS appendix when it is absent or false.
C15_NextActionPriority ==
    Derived =>
        /\ Len(Unreachable) > 0 =>
              call.out.next_action =
                  "Investigate why " \o Unreachable[1].name \o " is unreachable - check Railway logs"
        /\ (Len(Unreachable) = 0 /\ ~Flag("omni/path_tau/README.md")) =>
              call.out.next_action =
                  "Download path_tau_scaffold.ps1 from Telegram (~msg 622), execute, commit to omni-os-blueprint"
        /\ (/\ Len(Unreachable) = 0
            /\ Flag("omni/path_tau/README.md")
            /\ ~Flag("coach/APPENDIX_PERSISTENCE_NERVOUS_SYSTEM.md")) =>
              call.out.next_action =
                  "Commit APPENDIX_PERSISTENCE_NERVOUS_SYSTEM.md to cloudeye-coach (file in Telegram msg 639)"

\* no service is unreachable and both paths are missing: two rules fire and
\* the first of them holds the slot
C15_Witness ==
    /\ Derived
    /\ Len(Unreachable) = 0
    /\ ~Flag("omni/path_tau/README.md")
    /\ ~Flag("coach/APPENDIX_PERSISTENCE_NERVOUS_SYSTEM.md")
    /\ StartsWith(call.out.next_action, "Download")

\* no rule before the last one has anything to say
NothingToReport ==
    /\ Len(Unreachable) = 0
    /\ \A i \in 1..Len(claims_in) :
          ~(claims_in[i].verdict = ILLUSION /\ claims_in[i].severity = SEVERITY_HIGH)
    /\ \A i \in 1..Len(reality.git) :
          reality.git[i].repo_name = "coach" => reality.git[i].untracked = <<>>
    /\ Flag("omni/path_tau/README.md")
    /\ Flag("coach/APPENDIX_PERSISTENCE_NERVOUS_SYSTEM.md")

\* C16: the work order is the all-clear line alone, and the next action the
\* static "Proceed" message, exactly when nothing is unreachable, no claim is
\* an illusion of high severity, coach has no untracked file and both paths
\* exist; otherwise the line is absent and the next action is another one.
C16_AllClear ==
    Derived =>
        /\ NothingToReport =>
              /\ call.out.work_order = "[ok] No critical issues detected. System appears healthy."
              /\ call.out.next_action = "Proceed with current focus: LXR-5 bridge bug fix (4 SQL errors)"
        /\ ~NothingToReport =>
              /\ ~Contains(call.out.work_order, "No critical issues detected")
              /\ ~StartsWith(call.out.next_action, "Proceed")

\* an all-clear work order although the list holds illusions of lower severity
C16_Witness ==
    /\ Derived
    /\ NothingToReport
    /\ Len(claims_in) > 0
    /\ claims_in[1].verdict = ILLUSION
    /\ StartsWith(call.out.work_order, "[ok]")

-----------------------------------------------------------------------------
(* Monotonicity of the warning level, checked under SpecEngine *)

\* GREEN < AMBER < RED
LevelRank(level) ==
    CASE level = "GREEN" -> 0
      [] level = "AMBER" -> 1
      [] level = "RED"   -> 2

\* C17: for the snapshot and the claim list of a call of _warning_level, the
\* level with one more service unreachable, and the level with one more
\* illusion of high severity at any place of the list, is at least the level
\* the call returned.
C17_WarningLevelMonotone ==
    (call # NoCall /\ call.op = "_warning_level") =>
        LET illusions == SelectSeq(claims_in, LAMBDA c : c.verdict = ILLUSION)
            added == [Claim("9", "essence", "bug_active", "BUG 9: no such column", "bug:present",
                            SEVERITY_HIGH) EXCEPT !.verdict = ILLUSION]
        IN  /\ call.out \in {"GREEN", "AMBER", "RED"}
            /\ \A i \in 1..Len(reality.services) :
                  reality.services[i].reachable =>
                      LevelRank(WarningLevel(illusions,
                                    DownServices([reality EXCEPT !.services[i].reachable = FALSE])))
                          >= LevelRank(call.out)
            /\ \A k \in 0..Len(illusions) :
                  LevelRank(WarningLevel(SubSeq(illusions, 1, k) \o <<added>>
                                             \o SubSeq(illusions, k + 1, Len(illusions)),
                                         DownServices(reality)))
                      >= LevelRank(call.out)

\* a call that returned AMBER, or RED for a snapshot with one service
\* unreachable, while another service is reachable: the change matters
C17_Witness ==
    /\ call # NoCall
    /\ call.op = "_warning_level"
    /\ \/ call.out = "AMBER"
       \/ call.out = "RED" /\ Len(DownServices(reality)) = 1
    /\ \E i \in 1..Len(reality.services) : reality.services[i].reachable

-----------------------------------------------------------------------------
(* Properties of the extraction, checked under SpecDetector *)

\* all_claims holds a claim of the type and the expected value for the entry
Extracted(entry, claim_type, expected_value) ==
    \E k \in 1..Len(call.all_claims) :
        /\ call.all_claims[k].entry_id = IntStr(entry.id)
        /\ call.all_claims[k].claim_type = claim_type
        /\ call.all_claims[k].expected_value = expected_value

\* C18: every place of a loaded entry where a recognized service name is
\* followed on its line by a status word gives a service_health claim:
\* "<service>:UP" for an up word and "<service>:DOWN" for a down word.
C18_ServiceHealthBothWays ==
    Detected =>
        \A e \in 1..Len(call.entries) :
            \A j \in 1..Len(call.entries[e].content) :
                LET m == call.entries[e].content[j]
                    sname == ServiceNameNormalize(m.g1)
                IN  /\ (m.pat = RE_SERVICE_UP /\ sname # None) =>
                          Extracted(call.entries[e], "service_health", sname \o ":UP")
                    /\ (m.pat = RE_SERVICE_DOWN /\ sname # None) =>
                          Extracted(call.entries[e], "service_health", sname \o ":DOWN")

\* C19: bug_active claims come only from entries with a bug-inventory marker,
\* one for each defect line of such an entry, each with an expected value that
\* is the start of the matched text, so that the claims of two different
\* defect lines differ in their expected values.
C19_DefectLiteral ==
    Detected =>
        /\ \A k \in 1..Len(call.all_claims) :
              call.all_claims[k].claim_type = "bug_active" =>
                  \E e \in 1..Len(call.entries) :
                      /\ IntStr(call.entries[e].id) = call.all_claims[k].entry_id
                      /\ \E j \in 1..Len(call.entries[e].content) :
                            call.entries[e].content[j].pat = MARKER
        /\ \A e \in 1..Len(call.entries) :
              LET content == call.entries[e].content
              IN  (\E j \in 1..Len(content) : content[j].pat = MARKER) =>
                      \A j \in 1..Len(content) :
                          content[j].pat = RE_BUG_ACTIVE =>
                              \E n \in 1..Len(content[j].g0) :
                                  Extracted(call.entries[e], "bug_active",
                                            Prefix(content[j].g0, n))
        /\ \A k, l \in 1..Len(call.all_claims) :
              (/\ call.all_claims[k].claim_type = "bug_active"
               /\ call.all_claims[l].claim_type = "bug_active"
               /\ call.all_claims[k].claim_text # call.all_claims[l].claim_text)
              => call.all_claims[k].expected_value # call.all_claims[l].expected_value

-----------------------------------------------------------------------------
(* Properties of the store probes, checked under SpecScan *)

\* the count a count query leaves when the claim holds: its value, or zero
\* when it failed
Absorbed(query) == IF query.ok THEN query.value ELSE 0

\* C21: for a store whose file exists and opens, every count query that
\* succeeds has its count recorded, whichever queries failed before it, a
\* count query that fails leaves zero, and the error field stays unset.
C21_QueryFailureAbsorbed ==
    LocalDone =>
        /\ (call.env.librarian.exists /\ call.env.librarian.connect.ok) =>
              LET q == call.env.librarian.queries
                  state == call.librarian
              IN  /\ state.total_guidance = Absorbed(q[1])
                  /\ state.current_focus_count = Absorbed(q[2])
                  /\ state.essence_count = Absorbed(q[3])
                  /\ state.error = None
        /\ (call.env.sapphire.exists /\ call.env.sapphire.connect.ok) =>
              LET q == call.env.sapphire.queries
                  state == call.sapphire
              IN  /\ state.routing_observations = Absorbed(q[1])
                  /\ state.detected_patterns = Absorbed(q[3])
                  /\ state.unapplied_patterns = Absorbed(q[4])
                  /\ state.error = None

-----------------------------------------------------------------------------
(* The phases of a scan, checked under SpecScan *)

\* C22: the step that leaves the start of full_scan reads the clock, runs every
\* repository, filesystem and store probe and leaves every service probe
\* unfinished; the step that returns the snapshot finds every service probe
\* finished, and the snapshot carries the local results of the first step and
\* the time read in it.
C22_PhasesInOrder ==
    [][/\ (call.op = "full_scan" /\ call.pc = "start") =>
              /\ call'.pc = "probing"
              /\ call'.t0 = clock
              /\ Len(call'.git) = Len(REPOS)
              /\ Len(call'.filesystem) = Len(KEY_FILES)
              /\ call'.librarian.readable \in BOOLEAN
              /\ call'.sapphire.readable \in BOOLEAN
              /\ \A i \in 1..Len(SERVICES) : call'.results[i] = NotDone
       /\ (call.op = "full_scan" /\ call'.pc = "done") =>
              /\ call.pc = "probing"
              /\ \A i \in 1..Len(SERVICES) : call.results[i] # NotDone
              /\ reality'.git = call.git
              /\ reality'.filesystem = call.filesystem
              /\ reality'.librarian = call.librarian
              /\ reality'.sapphire = call.sapphire
              /\ reality'.scanned_at = IsoFormat(call.t0)
              /\ call.t0 <= clock]_vars

\* a scan that returned some seconds after its start, stamped with the start
C22_Witness ==
    /\ Scanned
    /\ clock > call.t0
    /\ reality.scanned_at = IsoFormat(call.t0)
    /\ \E i \in 1..Len(SERVICES) : ~reality.services[i].reachable

-----------------------------------------------------------------------------
(* Properties of the loaded entries, checked under SpecDetector *)

\* C23: the entries handed to the extractor are at most
\* SCAN_CURRENT_FOCUS_LIMIT, every current-focus entry comes before every
\* essence entry, and within each group the later created comes first.
C23_EntriesCapped ==
    Detected =>
        /\ Len(call.entries) <= SCAN_CURRENT_FOCUS_LIMIT
        /\ \A i, j \in 1..Len(call.entries) :
              i < j =>
                  LET a == call.entries[i]
                      b == call.entries[j]
                  IN  /\ PriorityRank(a.priority) <= PriorityRank(b.priority)
                      /\ PriorityRank(a.priority) = PriorityRank(b.priority) =>
                            a.created_at >= b.created_at

-----------------------------------------------------------------------------
(* Properties of the status classification, checked under SpecScan *)

\* C24: for a repository whose head and status queries gave an answer, every
\* line of the status output, the first one included, is classified by its
\* first two characters: "??" puts the path in untracked, otherwise a
\* non-blank first character puts it in staged and a non-blank second
\* character puts it in modified, both when both are non-blank.
C24_StatusClassified ==
    LocalDone =>
        \A i \in 1..Len(REPOS) :
            LET e == call.env.git[i]
                g == call.git[i]
                has(list, path) == \E k \in 1..Len(list) : list[k] = path
            IN  (e.exists /\ ~QueryFailed(e.head) /\ ~QueryFailed(e.status)) =>
                    \A n \in 1..Len(SplitLines(e.status.stdout)) :
                        LET line == SplitLines(e.status.stdout)[n]
                            path == Suffix(line, 3)
                        IN  /\ Prefix(line, 2) = "??" => has(g.untracked, path)
                            /\ (Prefix(line, 2) # "??" /\ SubSeq(line, 1, 1) # " ") =>
                                   has(g.staged, path)
                            /\ (Prefix(line, 2) # "??" /\ SubSeq(line, 2, 2) # " ") =>
                                   has(g.modified, path)

-----------------------------------------------------------------------------
(* The order of the writes of the slot, checked under SpecCache *)

\* C25: the slot never goes back in time: a step that writes a slot that
\* holds the pair of a call arrived at some time leaves the pair of a call
\* that arrived no earlier (the pair is that of one call, and _cached_at is
\* the arrival time of that call).
C25_SlotNeverGoesBack ==
    [][(cached_at # NoNumber /\ cached_at' # NoNumber) => cached_at' >= cached_at]_vars

-----------------------------------------------------------------------------
(* Properties of the briefings of the pipeline, checked under SpecDetector *)

\* the claims of a list that are illusions of high severity
HighIllusions(claims) ==
    SelectSeq(claims, LAMBDA c : c.verdict = ILLUSION /\ c.severity = SEVERITY_HIGH)

\* C26: in a briefing of the pipeline every illusion of high severity is a
\* service_health claim about a service the snapshot records as unreachable;
\* so there is none when every service is reachable, and the level RED comes
\* with an unreachable service.
C26_HighIllusionIsOutage ==
    (Synthesized /\ Detected) =>
        /\ HighIllusions(briefing.illusions) = HighIllusions(call.out)
        /\ \A k \in 1..Len(HighIllusions(call.out)) :
              LET c == HighIllusions(call.out)[k]
              IN  /\ c.claim_type = "service_health"
                  /\ \E i \in 1..Len(reality.services) :
                        /\ reality.services[i].name = SplitColon(c.expected_value)[1]
                        /\ ~reality.services[i].reachable
        /\ ~SomeServiceDown => HighIllusions(call.out) = <<>>
        /\ briefing.warning_level = "RED" => SomeServiceDown

\* a briefing with an illusion of high severity next to a defect claim, which
\* has high severity and is no illusion
C26_Witness ==
    /\ Synthesized
    /\ Detected
    /\ HighIllusions(briefing.illusions) # <<>>
    /\ \E k \in 1..Len(briefing.unverifiable) :
          /\ briefing.unverifiable[k].claim_type = "bug_active"
          /\ briefing.unverifiable[k].severity = SEVERITY_HIGH

\* C27: no verified claim has the verdict STALE, so the three lists of a
\* briefing of the pipeline, one after the other, are the sorted output of
\* detect_illusions, and their lengths add up to the number of deduplicated
\* claims.
C27_ThreeListsPartition ==
    (Synthesized /\ Detected) =>
        /\ \A k \in 1..Len(call.verified) :
              call.verified[k].verdict \in {ILLUSION, UNVERIFIABLE, VERIFIED}
        /\ \A k \in 1..Len(briefing.illusions) : briefing.illusions[k].verdict = ILLUSION
        /\ \A k \in 1..Len(briefing.unverifiable) :
              briefing.unverifiable[k].verdict = UNVERIFIABLE
        /\ \A k \in 1..Len(briefing.verified_claims) :
              briefing.verified_claims[k].verdict = VERIFIED
        /\ briefing.illusions \o briefing.unverifiable \o briefing.verified_claims = call.out
        /\ briefing.illusion_count = Len(briefing.illusions)
        /\ briefing.illusion_count + Len(briefing.unverifiable) + Len(briefing.verified_claims)
               = Len(call.unique_claims)

\* a briefing with claims in each of the three lists
C27_Witness ==
    /\ Synthesized
    /\ Detected
    /\ Len(briefing.illusions) > 0
    /\ Len(briefing.unverifiable) > 0
    /\ Len(briefing.verified_claims) > 0

\* the defect claims of a list
BugClaims(claims) == SelectSeq(claims, LAMBDA c : c.claim_type = "bug_active")

\* C28: the output of detect_illusions holds at most one defect claim, and
\* when a defect claim was extracted it holds the first one extracted.
C28_OneDefectClaim ==
    Detected =>
        /\ Len(BugClaims(call.out)) <= 1
        /\ BugClaims(call.all_claims) # <<>> =>
              /\ Len(BugClaims(call.out)) = 1
              /\ BugClaims(call.out)[1].entry_id = BugClaims(call.all_claims)[1].entry_id
              /\ BugClaims(call.out)[1].claim_text = BugClaims(call.all_claims)[1].claim_text

\* defect lines of two entries with a marker were extracted, three claims in
\* all, and one is left
C28_Witness ==
    /\ Detected
    /\ Len(BugClaims(call.all_claims)) >= 3
    /\ \E k \in 1..Len(call.all_claims) :
          /\ call.all_claims[k].claim_type = "bug_active"
          /\ call.all_claims[k].entry_id # BugClaims(call.all_claims)[1].entry_id
    /\ Len(BugClaims(call.out)) = 1

-----------------------------------------------------------------------------
(* The writes of the slot and the calls that raise, checked under           *)
(* SpecCacheRaise                                                           *)

\* C29: a step changes the slot only as the return of a call whose scan,
\* detection and synthesis gave a briefing, and then to that briefing and the
\* arrival time of that call; a step in which the pipeline of a call raises
\* leaves both variables as they were; and a call without force_refresh that
\* arrives next, while the slot is fresh, is served the briefing of the slot.
C29_RaiseLeavesSlot ==
    [][/\ (cached_briefing' # cached_briefing \/ cached_at' # cached_at) =>
              /\ Len(pending') = Len(pending) - 1
              /\ ~ret'.hit
              /\ ret'.result # NoBriefing
              /\ cached_briefing' = ret'.result
              /\ cached_at' = ret'.now
       /\ (Len(pending') < Len(pending) /\ ret'.result = NoBriefing) =>
              /\ cached_briefing' = cached_briefing
              /\ cached_at' = cached_at
       /\ (/\ ret # NoReturn
           /\ ret.result = NoBriefing
           /\ Arrived(FALSE)
           /\ SlotFresh) =>
              /\ ret'.hit
              /\ ret'.result = cached_briefing
              /\ cached_briefing' = cached_briefing]_vars

\* the pipeline of a forced call raised after the slot was written by an
\* earlier call, and the slot still holds the pair of that call, fresh
C29_Witness ==
    /\ ret # NoReturn
    /\ ret.result = NoBriefing
    /\ ret.force
    /\ pending = <<>>
    /\ cached_briefing # NoBriefing
    /\ cached_at < ret.now
    /\ SlotFresh

-----------------------------------------------------------------------------
(* The work order and the warning level of one briefing, checked under     *)
(* SpecEngine                                                               *)

\* C30: when the work order derived from a snapshot and a claim list is the
\* all-clear line, the warning level synthesize computes from the same
\* snapshot and the same claim list is GREEN.
C30_AllClearIsGreen ==
    (Derived /\ call.out.work_order = "[ok] No critical issues detected. System appears healthy.") =>
        WarningLevel(SelectSeq(claims_in, LAMBDA c : c.verdict = ILLUSION),
                     DownServices(reality)) = "GREEN"

====
